---- MODULE Spec2Model ----
(***************************************************************************)
(* A model of the gorilla/mux request router: route templates compiled to  *)
(* regular expressions, routes with matchers and sub-routers, routers with *)
(* a tree-wide name table, the per-request variable store and the reverse  *)
(* URL builder.                                                            *)
(*                                                                         *)
(* Go strings are modelled as sequences of tokens.  A token is one         *)
(* character ("/", ".", "a", "{", ...) or one atomic piece of regular      *)
(* expression source (a character class with its "+", such as "[0-9]+").   *)
(* Go slice indices are kept 0-based: Slice(s, a, b) is s[a:b].            *)
(***************************************************************************)
EXTENDS Integers, Sequences, FiniteSets, TLC

\* ------------------------------------------------------------------------
\* Strings
\* ------------------------------------------------------------------------

Range(f) == {f[x] : x \in DOMAIN f}

\* s[a:b] of Go, a and b 0-based, b exclusive.
Slice(s, a, b) == SubSeq(s, a + 1, b)

RECURSIVE Flatten(_)
Flatten(ss) == IF ss = <<>> THEN <<>> ELSE Head(ss) \o Flatten(Tail(ss))

\* Index (0-based) of the first occurrence of token c in s, or -1.
RECURSIVE IndexFrom(_, _, _)
IndexFrom(s, c, i) ==
    IF i >= Len(s) THEN -1
    ELSE IF s[i + 1] = c THEN i
    ELSE IndexFrom(s, c, i + 1)

\* strings.SplitN(s, sep, 2) for a one-token separator.
SplitN2(s, sep) ==
    LET i == IndexFrom(s, sep, 0)
    IN IF i < 0 THEN <<s>> ELSE <<Slice(s, 0, i), Slice(s, i + 1, Len(s))>>

\* ------------------------------------------------------------------------
\* Regular expressions (package regexp, as far as the router uses it)
\* ------------------------------------------------------------------------
\* Regular expression source is a sequence of items: a quoted character,
\* which matches itself whatever it is, or a token of source text, which is
\* interpreted: ( ) | ^ $ . and the character classes have their meaning.
\* Source is compiled when a template is parsed; requests and URLs are
\* matched against the compiled form.

Lit(c) == [k |-> "lit", c |-> c]
Src(c) == [k |-> "src", c |-> c]

SrcSeq(s) == [i \in 1..Len(s) |-> Src(s[i])]

\* regexp.QuoteMeta: every character of the text is to be matched literally.
QuoteMeta(raw) == [i \in 1..Len(raw) |-> Lit(raw[i])]

Digits == {"1", "2"}
Letters == {"a", "b", "c", "d", "e", "p", "q"}
ClassTokens == {"[^/]+", "[^.]+", "[0-9]+", "[a-z]+"}

\* Whether character ch is in the class of class token t.
InClass(t, ch) ==
    CASE t = "[^/]+" -> ch # "/"
      [] t = "[^.]+" -> ch # "."
      [] t = "[0-9]+" -> ch \in Digits
      [] t = "[a-z]+" -> ch \in Letters
      [] OTHER -> FALSE

IsOpen(it) == it = Src("(")
IsClose(it) == it = Src(")")
IsAlt(it) == it = Src("|")

\* Index (1-based) of the ")" closing the "(" at index 1 of items; 0 if none.
RECURSIVE CloseFrom(_, _, _)
CloseFrom(items, i, depth) ==
    IF i > Len(items) THEN 0
    ELSE IF IsOpen(items[i]) THEN CloseFrom(items, i + 1, depth + 1)
    ELSE IF IsClose(items[i])
         THEN IF depth = 1 THEN i ELSE CloseFrom(items, i + 1, depth - 1)
    ELSE CloseFrom(items, i + 1, depth)

CloseIdx(items) == CloseFrom(items, 2, 1)

\* The branches of re: re split at the "|" outside any group.
RECURSIVE SplitAltFrom(_, _, _, _)
SplitAltFrom(re, i, depth, cur) ==
    IF i > Len(re) THEN <<cur>>
    ELSE IF IsAlt(re[i]) /\ depth = 0
         THEN <<cur>> \o SplitAltFrom(re, i + 1, depth, <<>>)
    ELSE SplitAltFrom(re, i + 1,
                      IF IsOpen(re[i]) THEN depth + 1
                      ELSE IF IsClose(re[i]) THEN depth - 1 ELSE depth,
                      Append(cur, re[i]))

SplitAlt(re) == SplitAltFrom(re, 1, 0, <<>>)

\* Whether the parentheses of the source balance, from item i at depth d.
RECURSIVE Balanced(_, _, _)
Balanced(items, i, d) ==
    IF i > Len(items) THEN d = 0
    ELSE IF IsOpen(items[i]) THEN Balanced(items, i + 1, d + 1)
    ELSE IF IsClose(items[i]) THEN d > 0 /\ Balanced(items, i + 1, d - 1)
    ELSE Balanced(items, i + 1, d)

\* The compiled form of one item that is no parenthesis and no "|".
Node(it) ==
    IF it.k = "lit" THEN [k |-> "lit", c |-> it.c]
    ELSE CASE it.c = "^" -> [k |-> "bol"]
           [] it.c = "$" -> [k |-> "eol"]
           [] it.c = "." -> [k |-> "any"]
           [] it.c \in ClassTokens -> [k |-> "class", c |-> it.c]
           [] OTHER -> [k |-> "lit", c |-> it.c]

\* The compiled form of source with balanced parentheses: the sequence of
\* its branches, a branch being a sequence of nodes and a group node
\* holding the compiled form of what its parentheses enclose.
RECURSIVE Compile(_)
RECURSIVE CompileSeq(_)
Compile(items) ==
    LET bs == SplitAlt(items)
    IN [b \in 1..Len(bs) |-> CompileSeq(bs[b])]

CompileSeq(items) ==
    IF items = <<>> THEN <<>>
    ELSE IF IsOpen(Head(items))
    THEN LET c == CloseIdx(items)
         IN <<[k |-> "group", re |-> Compile(SubSeq(items, 2, c - 1))]>>
                \o CompileSeq(SubSeq(items, c + 1, Len(items)))
    ELSE <<Node(Head(items))>> \o CompileSeq(Tail(items))

\* regexp.MustCompile: [err, re]; source whose parentheses do not balance
\* is a panic.
MustCompile(items) ==
    IF Balanced(items, 1, 0) THEN [err |-> "", re |-> Compile(items)]
    ELSE [err |-> "errRegexp", re |-> <<>>]

\* The positions where a run of one or more characters of class t that
\* starts at position i of s can end, longest first (the "+" is greedy).
RECURSIVE ClassEnds(_, _, _)
ClassEnds(t, s, j) ==
    IF j < Len(s) /\ InClass(t, s[j + 1])
    THEN ClassEnds(t, s, j + 1) \o <<j + 1>>
    ELSE <<>>

\* The positions where a node that is no group can end when it starts at
\* position i of s (positions count the characters consumed).
AtomEnds(nd, s, i) ==
    CASE nd.k = "lit" -> IF i < Len(s) /\ s[i + 1] = nd.c THEN <<i + 1>> ELSE <<>>
      [] nd.k = "bol" -> IF i = 0 THEN <<i>> ELSE <<>>
      [] nd.k = "eol" -> IF i = Len(s) THEN <<i>> ELSE <<>>
      [] nd.k = "any" -> IF i < Len(s) THEN <<i + 1>> ELSE <<>>
      [] nd.k = "class" -> ClassEnds(nd.c, s, i)

\* Every way the compiled re matches s from position i, in the order a
\* backtracking matcher prefers them (earlier branch first, longer
\* repetition first): a sequence of [e |-> end position, caps |-> texts of
\* the groups].  SeqRuns is the same for branch b from its node n on.
RECURSIVE ReRuns(_, _, _)
RECURSIVE SeqRuns(_, _, _, _)
ReRuns(re, s, i) ==
    IF Len(re) = 1 THEN SeqRuns(re[1], 1, s, i)
    ELSE Flatten([b \in 1..Len(re) |-> SeqRuns(re[b], 1, s, i)])

SeqRuns(b, n, s, i) ==
    IF n > Len(b) THEN << [e |-> i, caps |-> <<>>] >>
    ELSE IF b[n].k = "group"
    THEN LET gr == ReRuns(b[n].re, s, i)
         IN Flatten([x \in 1..Len(gr) |->
                LET rr == SeqRuns(b, n + 1, s, gr[x].e)
                IN [y \in 1..Len(rr) |->
                       [e |-> rr[y].e,
                        caps |-> <<Slice(s, i, gr[x].e)>> \o gr[x].caps
                                     \o rr[y].caps]]])
    ELSE LET ends == AtomEnds(b[n], s, i)
         IN IF ends = <<>> THEN <<>>
            ELSE IF Len(ends) = 1 THEN SeqRuns(b, n + 1, s, ends[1])
            ELSE Flatten([x \in 1..Len(ends) |-> SeqRuns(b, n + 1, s, ends[x])])

\* The leftmost match of re in s that starts at position i or later: <<>>
\* when there is none, else the text of the match followed by the texts of
\* its groups.
RECURSIVE FindFrom(_, _, _)
FindAt(re, s, i, runs) ==
    IF runs # <<>> THEN <<Slice(s, i, runs[1].e)>> \o runs[1].caps
    ELSE FindFrom(re, s, i + 1)

FindFrom(re, s, i) ==
    IF i > Len(s) THEN <<>> ELSE FindAt(re, s, i, ReRuns(re, s, i))

\* Regexp.FindStringSubmatch: nil (<<>>) when re matches nowhere in s.
FindStringSubmatch(re, s) == FindFrom(re, s, 0)

\* Regexp.MatchString: re matches somewhere in s.
MatchString(re, s) == FindFrom(re, s, 0) # <<>>

\* ------------------------------------------------------------------------
\* Template parsing
\* ------------------------------------------------------------------------

\* The error descriptions of the package, by the names of its constants.
NoErr == ""

\* findAllVariableIndex: the index bounds (start, end) of the top-level
\* {...} groups of s, or the unbalanced-braces panic.
RECURSIVE findAllVariableIndexFrom(_, _, _, _, _)

\* The loop when the level is not looked at after the last character.
findAllVariableIndexFrom_noLastCheck(s, i, level, idx, idxs) ==
    IF i >= Len(s) THEN [err |-> NoErr, idxs |-> idxs]
    ELSE IF s[i + 1] = "{"
         THEN findAllVariableIndexFrom(s, i + 1, level + 1,
                                       IF level + 1 = 1 THEN i ELSE idx, idxs)
    ELSE IF s[i + 1] = "}"
         THEN IF level - 1 = 0
              THEN findAllVariableIndexFrom(s, i + 1, 0, idx,
                                            idxs \o <<idx, i + 1>>)
              ELSE IF level - 1 < 0
              THEN [err |-> "errUnbalancedBraces", idxs |-> <<>>]
              ELSE findAllVariableIndexFrom(s, i + 1, level - 1, idx, idxs)
    ELSE findAllVariableIndexFrom(s, i + 1, level, idx, idxs)

findAllVariableIndexFrom(s, i, level, idx, idxs) ==
    IF i >= Len(s)
    THEN IF level # 0 THEN [err |-> "errUnbalancedBraces", idxs |-> <<>>]
         ELSE [err |-> NoErr, idxs |-> idxs]
    ELSE IF s[i + 1] = "{"
         THEN findAllVariableIndexFrom(s, i + 1, level + 1,
                                       IF level + 1 = 1 THEN i ELSE idx, idxs)
    ELSE IF s[i + 1] = "}"
         THEN IF level - 1 = 0
              THEN findAllVariableIndexFrom(s, i + 1, 0, idx,
                                            idxs \o <<idx, i + 1>>)
              ELSE IF level - 1 < 0
              THEN [err |-> "errUnbalancedBraces", idxs |-> <<>>]
              ELSE findAllVariableIndexFrom(s, i + 1, level - 1, idx, idxs)
    ELSE findAllVariableIndexFrom(s, i + 1, level, idx, idxs)

findAllVariableIndex(s) == findAllVariableIndexFrom(s, 0, 0, 0, <<>>)

\* matchInArray: value is an element of the array.
matchInArray(arr, value) == \E i \in 1..Len(arr) : arr[i] = value

\* The loop of parseTemplate over the variables, from the pair of indices at
\* position i of idxs; st carries end, names, pattern, reverse, varsN, varsR.
RECURSIVE parseTemplateLoop(_, _, _, _, _)
parseTemplateLoop(template, defaultPattern, idxs, i, st) ==
    IF i >= Len(idxs) THEN st
    ELSE LET raw == Slice(template, st.end, idxs[i + 1])
             end == idxs[i + 2]
             parts == SplitN2(Slice(template, idxs[i + 1] + 1, end - 1), ":")
             name == parts[1]
             patt == IF Len(parts) = 1 THEN defaultPattern ELSE parts[2]
             varR == MustCompile(<<Src("^")>> \o SrcSeq(patt) \o <<Src("$")>>)
         IN IF name = <<>> \/ patt = <<>>
            THEN [st EXCEPT !.err = "errBadTemplatePart"]
            ELSE IF matchInArray(st.names, name)
            THEN [st EXCEPT !.err = "errVarName"]
            ELSE IF varR.err # NoErr
            THEN [st EXCEPT !.err = varR.err]
            ELSE parseTemplateLoop(template, defaultPattern, idxs, i + 2,
                   [err |-> NoErr,
                    end |-> end,
                    names |-> Append(st.names, name),
                    pattern |-> st.pattern \o QuoteMeta(raw) \o <<Src("(")>>
                                    \o SrcSeq(patt) \o <<Src(")")>>,
                    reverse |-> st.reverse \o raw \o <<"%", "s">>,
                    varsN |-> Append(st.varsN, name),
                    varsR |-> Append(st.varsR, varR.re)])

\* parseTemplate after the loop: st is what the loop built.
parseTemplateEnd(template, prefix, st) ==
    IF st.err # NoErr THEN [err |-> st.err, tpl |-> <<>>]
    ELSE [err |-> NoErr,
          tpl |-> [Regexp |->
                       MustCompile(st.pattern
                           \o QuoteMeta(Slice(template, st.end, Len(template)))
                           \o (IF prefix THEN <<>> ELSE <<Src("$")>>)).re,
                   Reverse |-> st.reverse \o Slice(template, st.end, Len(template)),
                   VarsN |-> st.varsN,
                   VarsR |-> st.varsR]]

\* parseTemplate once the variables are found: found is [err, idxs].
parseTemplateFound(template, defaultPattern, prefix, names, found) ==
    IF found.err # NoErr THEN [err |-> found.err, tpl |-> <<>>]
    ELSE parseTemplateEnd(template, prefix,
             parseTemplateLoop(template, defaultPattern, found.idxs, 0,
                 [err |-> NoErr, end |-> 0, names |-> names,
                  pattern |-> <<Src("^")>>, reverse |-> <<>>,
                  varsN |-> <<>>, varsR |-> <<>>]))

\* parseTemplate: [err, tpl]; tpl is the parsedTemplate when err = NoErr.
parseTemplate(template, defaultPattern, prefix, names) ==
    parseTemplateFound(template, defaultPattern, prefix, names,
                       findAllVariableIndex(template))

\* variableNames: the variable names of the templates that are set.  An
\* optional template is a sequence of length 0 (nil) or 1.
variableNames(templates) ==
    Flatten([i \in 1..Len(templates) |->
                IF templates[i] # <<>> THEN templates[i][1].VarsN ELSE <<>>])

\* ------------------------------------------------------------------------
\* URL building
\* ------------------------------------------------------------------------

\* fmt.Sprintf for the verbs a reverse template can hold: "%s" takes the
\* next operand, "%%" is a percent sign, "%" before anything else is a bad
\* verb, and fmt reports bad verbs, missing and extra operands in the text
\* it returns.  Flags, widths and precisions are not modelled.
RECURSIVE SprintfFrom(_, _, _, _)
SprintfFrom(format, i, args, n) ==
    IF i >= Len(format)
    THEN IF n < Len(args) THEN <<"%!(EXTRA)">> ELSE <<>>
    ELSE IF format[i + 1] # "%"
    THEN <<format[i + 1]>> \o SprintfFrom(format, i + 1, args, n)
    ELSE IF i + 1 >= Len(format) THEN <<"%!(NOVERB)">>
    ELSE IF format[i + 2] = "%"
    THEN <<"%">> \o SprintfFrom(format, i + 2, args, n)
    ELSE IF n >= Len(args)
    THEN <<"%!(MISSING)">> \o SprintfFrom(format, i + 2, args, n)
    ELSE IF format[i + 2] = "s"
    THEN args[n + 1] \o SprintfFrom(format, i + 2, args, n + 1)
    ELSE <<"%!(BADVERB)">> \o SprintfFrom(format, i + 2, args, n + 1)

Sprintf(format, args) == SprintfFrom(format, 0, args, 0)

\* reverseRoute: values is a map from variable names to values.  [err, url,
\* name]: the URL part, or the panic and the variable it names.
reverseRoute(tpl, values) ==
    LET missing == {k \in 1..Len(tpl.VarsN) : tpl.VarsN[k] \notin DOMAIN values}
        firstMissing == CHOOSE k \in missing : \A j \in missing : k <= j
        urlValues == [k \in 1..Len(tpl.VarsN) |-> values[tpl.VarsN[k]]]
        url == Sprintf(tpl.Reverse, urlValues)
        bad == {k \in 1..Len(tpl.VarsN) :
                   ~MatchString(tpl.VarsR[k], values[tpl.VarsN[k]])}
        firstBad == CHOOSE k \in bad : \A j \in bad : k <= j
    IN IF missing # {}
       THEN [err |-> "errMissingRouteVar", url |-> <<>>,
             name |-> tpl.VarsN[firstMissing]]
       ELSE IF ~MatchString(tpl.Regexp, url) /\ bad # {}
       THEN [err |-> "errBadRouteVar", url |-> <<>>,
             name |-> tpl.VarsN[firstBad]]
       ELSE [err |-> NoErr, url |-> url, name |-> <<>>]

\* ------------------------------------------------------------------------
\* State
\* ------------------------------------------------------------------------

VARIABLES
    routers,    \* the Router objects: Routes, NamedRoutes, rootRouter
    routes,     \* the Route objects: router, handler, matchers, templates
    requests,   \* the live *http.Request objects, by the slot that holds them
    ctx,        \* the per-request variable store: request -> RouteVars
    pkg,        \* the package-level variables DefaultRouter and NamedRoutes
    calls,      \* the Match calls in progress, by the slot of their request
    ret         \* what the last call was given and what it returned

vars == <<routers, routes, requests, ctx, pkg, calls, ret>>

\* A nil pointer to a Router or a Route.  Optional values that are not
\* pointers to modelled objects (a template, a map) are sequences of length
\* 0 (nil) or 1.
Nil == 0

\* NewRouter (the package function): no routes, an empty name table, no root.
NewRouter == [Routes |-> <<>>, NamedRoutes |-> << <<>> >>, rootRouter |-> Nil]

\* new(Router): the zero Router, with no routes, a nil name table and no root.
new_Router == [Routes |-> <<>>, NamedRoutes |-> <<>>, rootRouter |-> Nil]

\* The package-level variables.  DefaultRouter is the default router, and
\* NamedRoutes the map it was initialised with: nil, or the map object of a
\* router, which is named by that router since a router never replaces a map
\* it has.  NoPackage is their value where the default router takes no part.
NoPackage == [DefaultRouter |-> Nil, NamedRoutes |-> Nil]

\* newRoute, with the router set as Router.NewRoute does.
newRoute(rt) ==
    [router |-> rt, handler |-> <<>>, matchers |-> <<>>,
     hostTemplate |-> <<>>, pathTemplate |-> <<>>]

\* Router.root: the root router, where named routes are stored.
root(rt) == IF routers[rt].rootRouter = Nil THEN rt ELSE routers[rt].rootRouter

\* What the last call returned.  op and the arguments rt (router), r (route),
\* q (request), s (template, name, values or pairs); err is the panic, if
\* any, and name the variable the panic names; route and ok are the results
\* of a Match, log what it evaluated and stored, url the result of URL
\* building, tpl the result of parseTemplate, status and location the
\* status code and the Location header ServeHTTP answered with itself, and
\* served the handlers it dispatched.
Ret(op, rt, r, q, s, err) ==
    [op |-> op, rt |-> rt, r |-> r, q |-> q, s |-> s, err |-> err,
     name |-> <<>>, route |-> Nil, ok |-> FALSE, log |-> <<>>, url |-> <<>>,
     tpl |-> <<>>, status |-> 0, location |-> <<>>, served |-> <<>>]

\* ------------------------------------------------------------------------
\* Matching
\* ------------------------------------------------------------------------

\* One step of a match: the host or path template of a route was applied,
\* matcher i of a route was asked, or ctx.Set stored vars for the request.
Ev(ev, r, i, vs) == [ev |-> ev, route |-> r, i |-> i, vars |-> vs]

\* strings.ToUpper on the method names of the model.
ToUpper(s) ==
    CASE s \in {"get", "Get"} -> "GET" [] s \in {"post", "Post"} -> "POST"
      [] OTHER -> s

\* strings.ToLower on the scheme names of the model.
ToLower(s) ==
    CASE s \in {"HTTP", "Http"} -> "http" [] s \in {"HTTPS", "Https"} -> "https"
      [] OTHER -> s

\* http.CanonicalHeaderKey on the header names of the model.
CanonicalHeaderKey(k) ==
    CASE k \in {"x-foo", "X-FOO", "X-Foo"} -> "X-Foo"
      [] k \in {"x-bar", "X-BAR", "X-Bar"} -> "X-Bar"
      [] OTHER -> k

\* stringMapFromPairs: [err, m]; an odd number of strings is the panic err,
\* and of two pairs with one key the later one stays.
stringMapFromPairs(err, pairs) ==
    IF Len(pairs) % 2 # 0 THEN [err |-> err, m |-> <<>>]
    ELSE [err |-> NoErr,
          m |-> [k \in {pairs[2 * i - 1] : i \in 1..(Len(pairs) \div 2)} |->
                    LET last == CHOOSE i \in 1..(Len(pairs) \div 2) :
                                    /\ pairs[2 * i - 1] = k
                                    /\ \A j \in 1..(Len(pairs) \div 2) :
                                           pairs[2 * j - 1] = k => j <= i
                    IN pairs[2 * last]]]

\* matchMap: every pair of toCheck is in toMatch, a map from keys to lists
\* of values: the key is there and one of its values is the value.
matchMap(toCheck, toMatch, canonicalKey) ==
    \A k \in DOMAIN toCheck :
        LET key == IF canonicalKey THEN CanonicalHeaderKey(k) ELSE k
        IN /\ key \in DOMAIN toMatch
           /\ \E i \in 1..Len(toMatch[key]) : toMatch[key][i] = toCheck[k]

\* The loops of Route.Match that fill vars: vars[v] = matches[k+1] for k, v
\* in range VarsN (k 0-based in the source, names[k] 1-based here).
RECURSIVE setVars(_, _, _, _)
setVars(vs, names, matches, k) ==
    IF k > Len(names) THEN vs
    ELSE setVars([n \in DOMAIN vs \cup {names[k]} |->
                     IF n = names[k] THEN matches[k + 1] ELSE vs[n]],
                 names, matches, k + 1)

\* The custom matcher functions of the model, by name: what each returns
\* for a request.
MatcherFunc(f, req) ==
    CASE f = "isGet" -> req.Method = "GET"
      [] f = "never" -> FALSE

RECURSIVE RouteMatch(_, _)
RECURSIVE RouterMatch(_, _)
RECURSIVE matchersLoop(_, _, _, _)
RECURSIVE routesLoop(_, _, _, _)

\* A matcher's Match: [route, ok, log].  A router returns a route, the
\* other matchers nil and whether the request passes.
matcherMatch(m, req) ==
    CASE m.k = "router" -> RouterMatch(m.router, req)
      [] m.k = "methods" ->
            [route |-> Nil, ok |-> matchInArray(m.methods, req.Method),
             log |-> <<>>]
      [] m.k = "schemes" ->
            [route |-> Nil, ok |-> matchInArray(m.schemes, req.Scheme),
             log |-> <<>>]
      [] m.k = "headers" ->
            [route |-> Nil, ok |-> matchMap(m.headers, req.Header, TRUE),
             log |-> <<>>]
      [] m.k = "queries" ->
            [route |-> Nil, ok |-> matchMap(m.queries, req.Query, FALSE),
             log |-> <<>>]
      [] m.k = "custom" ->
            [route |-> Nil, ok |-> MatcherFunc(m.matcherFunc, req),
             log |-> <<>>]

\* The body of the loop when the route a sub-router returns is dropped.
matchersStep_parent(r, req, i, log, res) ==
    IF ~res.ok
    THEN [route |-> Nil, ok |-> FALSE,
          log |-> log \o <<Ev("matcher", r, i, <<>>)>> \o res.log]
    ELSE matchersLoop(r, req, i + 1,
                      log \o <<Ev("matcher", r, i, <<>>)>> \o res.log)

\* Route.Match, the body of the loop over r.matchers: res is what matcher i
\* returned.
matchersStep(r, req, i, log, res) ==
    IF ~res.ok
    THEN [route |-> Nil, ok |-> FALSE,
          log |-> log \o <<Ev("matcher", r, i, <<>>)>> \o res.log]
    ELSE IF res.route # Nil
    THEN [route |-> res.route, ok |-> TRUE,
          log |-> log \o <<Ev("matcher", r, i, <<>>)>> \o res.log]
    ELSE matchersLoop(r, req, i + 1,
                      log \o <<Ev("matcher", r, i, <<>>)>> \o res.log)

\* Route.Match, the loop over r.matchers from matcher i on: [route, ok, log].
matchersLoop(r, req, i, log) ==
    IF i > Len(routes[r].matchers) THEN [route |-> Nil, ok |-> TRUE, log |-> log]
    ELSE matchersStep(r, req, i, log, matcherMatch(routes[r].matchers[i], req))

\* What Route.Match has evaluated when it reaches the matchers.
hostLog(r) == IF routes[r].hostTemplate # <<>> THEN <<Ev("host", r, 0, <<>>)>> ELSE <<>>
pathLog(r) == IF routes[r].pathTemplate # <<>> THEN <<Ev("path", r, 0, <<>>)>> ELSE <<>>

\* Route.Match, the variables of the match: those of the host template, then
\* those of the path template.
routeVars(r, hostMatches, pathMatches) ==
    setVars(IF hostMatches # <<>>
            THEN setVars(<<>>, routes[r].hostTemplate[1].VarsN, hostMatches, 1)
            ELSE <<>>,
            IF pathMatches # <<>> THEN routes[r].pathTemplate[1].VarsN ELSE <<>>,
            pathMatches, 1)

\* Route.Match after the matchers: m is what their loop returned.
RouteMatchEnd(r, hostMatches, pathMatches, m) ==
    IF ~m.ok THEN [route |-> Nil, ok |-> FALSE, log |-> m.log]
    ELSE [route |-> IF m.route # Nil THEN m.route ELSE r,
          ok |-> TRUE,
          log |-> m.log \o <<Ev("set", r, 0,
                                routeVars(r, hostMatches, pathMatches))>>]

\* Route.Match when the variables are stored before the matchers are asked.
RouteMatchPath_setFirst(r, req, hostMatches, pathMatches) ==
    IF routes[r].pathTemplate # <<>> /\ pathMatches = <<>>
    THEN [route |-> Nil, ok |-> FALSE, log |-> hostLog(r) \o pathLog(r)]
    ELSE LET m == matchersLoop(r, req, 1,
                      hostLog(r) \o pathLog(r)
                          \o <<Ev("set", r, 0,
                                  routeVars(r, hostMatches, pathMatches))>>)
         IN [route |-> IF ~m.ok THEN Nil
                       ELSE IF m.route # Nil THEN m.route ELSE r,
             ok |-> m.ok, log |-> m.log]

\* Route.Match after the path template was applied.
RouteMatchPath(r, req, hostMatches, pathMatches) ==
    IF routes[r].pathTemplate # <<>> /\ pathMatches = <<>>
    THEN [route |-> Nil, ok |-> FALSE, log |-> hostLog(r) \o pathLog(r)]
    ELSE RouteMatchEnd(r, hostMatches, pathMatches,
                       matchersLoop(r, req, 1, hostLog(r) \o pathLog(r)))

\* Route.Match when the path template is applied also after the host
\* template has failed.
RouteMatchHost_pathToo(r, req, hostMatches) ==
    IF routes[r].hostTemplate # <<>> /\ hostMatches = <<>>
    THEN [route |-> Nil, ok |-> FALSE, log |-> hostLog(r) \o pathLog(r)]
    ELSE RouteMatchPath(r, req, hostMatches,
             IF routes[r].pathTemplate # <<>>
             THEN FindStringSubmatch(routes[r].pathTemplate[1].Regexp, req.Path)
             ELSE <<>>)

\* Route.Match after the host template was applied.
RouteMatchHost(r, req, hostMatches) ==
    IF routes[r].hostTemplate # <<>> /\ hostMatches = <<>>
    THEN [route |-> Nil, ok |-> FALSE, log |-> hostLog(r)]
    ELSE RouteMatchPath(r, req, hostMatches,
             IF routes[r].pathTemplate # <<>>
             THEN FindStringSubmatch(routes[r].pathTemplate[1].Regexp, req.Path)
             ELSE <<>>)

\* Route.Match: [route, ok, log].
RouteMatch(r, req) ==
    RouteMatchHost(r, req,
        IF routes[r].hostTemplate # <<>>
        THEN FindStringSubmatch(routes[r].hostTemplate[1].Regexp, req.Host)
        ELSE <<>>)

\* The body of the loop when a later matching route replaces an earlier one.
routesStep_last(rt, req, i, log, res) ==
    LET rest == routesLoop(rt, req, i + 1, log \o res.log)
    IN IF rest.ok \/ ~res.ok THEN rest
       ELSE [route |-> res.route, ok |-> TRUE, log |-> log \o res.log]

\* Router.Match, the body of the loop over r.Routes: res is what route i
\* returned.
routesStep(rt, req, i, log, res) ==
    IF res.ok THEN [route |-> res.route, ok |-> TRUE, log |-> log \o res.log]
    ELSE routesLoop(rt, req, i + 1, log \o res.log)

\* Router.Match, the loop over r.Routes from route i on.
routesLoop(rt, req, i, log) ==
    IF i > Len(routers[rt].Routes) THEN [route |-> Nil, ok |-> FALSE, log |-> log]
    ELSE routesStep(rt, req, i, log, RouteMatch(routers[rt].Routes[i], req))

\* Router.Match: [route, ok, log].
RouterMatch(rt, req) == routesLoop(rt, req, 1, <<>>)

\* The store's set operation (context.Namespace.Set): the value kept for
\* request q becomes vs.
ctxSet(store, q, vs) ==
    [x \in DOMAIN store \cup {q} |-> IF x = q THEN vs ELSE store[x]]

\* The store after the Set calls of log, in order, all for request q.
RECURSIVE applyLog(_, _, _, _)
applyLog(store, q, log, i) ==
    IF i > Len(log) THEN store
    ELSE applyLog(IF log[i].ev = "set" THEN ctxSet(store, q, log[i].vars)
                  ELSE store,
                  q, log, i + 1)

\* Vars: the route variables stored for request q, nil (<<>>) if none.
Vars(q) == IF q \in DOMAIN ctx THEN ctx[q] ELSE <<>>

\* ------------------------------------------------------------------------
\* Operations
\* ------------------------------------------------------------------------

\* Router.NewRoute: an empty route, appended to the router's routes.
NewRoute(rt) ==
    /\ routes' = Append(routes, newRoute(rt))
    /\ routers' = [routers EXCEPT ![rt].Routes = Append(@, Len(routes) + 1)]
    /\ ret' = [Ret("NewRoute", rt, Nil, Nil, <<>>, NoErr)
                  EXCEPT !.route = Len(routes) + 1]
    /\ UNCHANGED <<requests, ctx, pkg, calls>>

\* Route.addMatcher.
addMatcher(r, m) == [routes EXCEPT ![r].matchers = Append(@, m)]

\* Route.NewRouter when the new router refers to the route's router where
\* it should refer to the root.
Route_NewRouter_parent(r) ==
    /\ routers' = Append(routers,
                         [Routes |-> <<>>, NamedRoutes |-> <<>>,
                          rootRouter |-> routes[r].router])
    /\ routes' = addMatcher(r, [k |-> "router", router |-> Len(routers) + 1])
    /\ ret' = [Ret("NewRouter", Nil, r, Nil, <<>>, NoErr)
                  EXCEPT !.rt = Len(routers) + 1]
    /\ UNCHANGED <<requests, ctx, pkg, calls>>

\* Route.NewRouter: a router with no routes and no name table of its own,
\* whose root is the root of the route's router, added as a matcher.
Route_NewRouter(r) ==
    /\ routers' = Append(routers,
                         [Routes |-> <<>>, NamedRoutes |-> <<>>,
                          rootRouter |-> root(routes[r].router)])
    /\ routes' = addMatcher(r, [k |-> "router", router |-> Len(routers) + 1])
    /\ ret' = [Ret("NewRouter", Nil, r, Nil, <<>>, NoErr)
                  EXCEPT !.rt = Len(routers) + 1]
    /\ UNCHANGED <<requests, ctx, pkg, calls>>

\* Route.Name when a name that is registered is given to the new route.
Name_overwrite(r, name) ==
    LET router == root(routes[r].router)
        table == IF routers[router].NamedRoutes = <<>> THEN <<>>
                 ELSE routers[router].NamedRoutes[1]
    IN /\ routers' = [routers EXCEPT ![router].NamedRoutes =
                         << [n \in DOMAIN table \cup {name} |->
                                IF n = name THEN r ELSE table[n]] >>]
       /\ ret' = Ret("Name", Nil, r, Nil, name, NoErr)
       /\ UNCHANGED <<routes, requests, ctx, pkg, calls>>

\* Route.Name: the name goes to the table of the root router, which is made
\* when it is nil; a name that is there already is a panic.
Name(r, name) ==
    LET router == root(routes[r].router)
        table == IF routers[router].NamedRoutes = <<>> THEN <<>>
                 ELSE routers[router].NamedRoutes[1]
    IN /\ IF name \in DOMAIN table
          THEN /\ routers' = routers
               /\ ret' = Ret("Name", Nil, r, Nil, name, "errRouteName")
          ELSE /\ routers' = [routers EXCEPT ![router].NamedRoutes =
                     << [n \in DOMAIN table \cup {name} |->
                            IF n = name THEN r ELSE table[n]] >>]
               /\ ret' = Ret("Name", Nil, r, Nil, name, NoErr)
       /\ UNCHANGED <<routes, requests, ctx, pkg, calls>>

\* Route.Host.
Host(r, template) ==
    LET p == parseTemplate(template, <<"[^.]+">>, FALSE,
                           variableNames(<<routes[r].pathTemplate>>))
        err == IF template = <<>> THEN "errEmptyHost" ELSE p.err
    IN /\ routes' = IF err # NoErr THEN routes
                    ELSE [routes EXCEPT ![r].hostTemplate = <<p.tpl>>]
       /\ ret' = Ret("Host", Nil, r, Nil, template, err)
       /\ UNCHANGED <<routers, requests, ctx, pkg, calls>>

\* Route.Path when the template need not start with a slash.
Path_anyStart(r, template) ==
    LET p == parseTemplate(template, <<"[^/]+">>, FALSE,
                           variableNames(<<routes[r].hostTemplate>>))
        err == IF template = <<>> THEN "errEmptyPath" ELSE p.err
    IN /\ routes' = IF err # NoErr THEN routes
                    ELSE [routes EXCEPT ![r].pathTemplate = <<p.tpl>>]
       /\ ret' = Ret("Path", Nil, r, Nil, template, err)
       /\ UNCHANGED <<routers, requests, ctx, pkg, calls>>

\* Route.Path.
Path(r, template) ==
    LET p == parseTemplate(template, <<"[^/]+">>, FALSE,
                           variableNames(<<routes[r].hostTemplate>>))
        err == IF template = <<>> \/ template[1] # "/" THEN "errEmptyPath"
               ELSE p.err
    IN /\ routes' = IF err # NoErr THEN routes
                    ELSE [routes EXCEPT ![r].pathTemplate = <<p.tpl>>]
       /\ ret' = Ret("Path", Nil, r, Nil, template, err)
       /\ UNCHANGED <<routers, requests, ctx, pkg, calls>>

\* Route.PathPrefix.
PathPrefix(r, template) ==
    LET p == parseTemplate(template, <<"[^/]+">>, TRUE,
                           variableNames(<<routes[r].pathTemplate>>))
        err == IF template = <<>> \/ template[1] # "/" THEN "errEmptyPathPrefix"
               ELSE p.err
    IN /\ routes' = IF err # NoErr THEN routes
                    ELSE [routes EXCEPT ![r].pathTemplate = <<p.tpl>>]
       /\ ret' = Ret("PathPrefix", Nil, r, Nil, template, err)
       /\ UNCHANGED <<routers, requests, ctx, pkg, calls>>

\* Route.Methods when the methods are kept as they are given.
Methods_asGiven(r, methods) ==
    /\ routes' = IF Len(methods) = 0 THEN routes
                 ELSE addMatcher(r, [k |-> "methods", methods |-> methods])
    /\ ret' = Ret("Methods", Nil, r, Nil, methods,
                  IF Len(methods) = 0 THEN "errEmptyMethods" ELSE NoErr)
    /\ UNCHANGED <<routers, requests, ctx, pkg, calls>>

\* Route.Methods.
Methods(r, methods) ==
    /\ routes' = IF Len(methods) = 0 THEN routes
                 ELSE addMatcher(r, [k |-> "methods",
                                     methods |-> [i \in 1..Len(methods) |->
                                                     ToUpper(methods[i])]])
    /\ ret' = Ret("Methods", Nil, r, Nil, methods,
                  IF Len(methods) = 0 THEN "errEmptyMethods" ELSE NoErr)
    /\ UNCHANGED <<routers, requests, ctx, pkg, calls>>

\* Route.Schemes.
Schemes(r, schemes) ==
    /\ routes' = IF Len(schemes) = 0 THEN routes
                 ELSE addMatcher(r, [k |-> "schemes",
                                     schemes |-> [i \in 1..Len(schemes) |->
                                                     ToLower(schemes[i])]])
    /\ ret' = Ret("Schemes", Nil, r, Nil, schemes,
                  IF Len(schemes) = 0 THEN "errEmptySchemes" ELSE NoErr)
    /\ UNCHANGED <<routers, requests, ctx, pkg, calls>>

\* Route.Headers and Route.Queries once the pairs are a map: p is [err, m].
mapMatcher(r, op, kind, errEmpty, pairs, p) ==
    LET err == IF p.err # NoErr THEN p.err
               ELSE IF DOMAIN p.m = {} THEN errEmpty ELSE NoErr
    IN /\ routes' = IF err # NoErr THEN routes
                    ELSE addMatcher(r, IF kind = "headers"
                                       THEN [k |-> "headers", headers |-> p.m]
                                       ELSE [k |-> "queries", queries |-> p.m])
       /\ ret' = Ret(op, Nil, r, Nil, pairs, err)
       /\ UNCHANGED <<routers, requests, ctx, pkg, calls>>

\* Route.Headers.
Headers(r, pairs) ==
    mapMatcher(r, "Headers", "headers", "errEmptyHeaders", pairs,
               stringMapFromPairs("errOddHeaders", pairs))

\* Route.Queries.
Queries(r, pairs) ==
    mapMatcher(r, "Queries", "queries", "errEmptyQueries", pairs,
               stringMapFromPairs("errOddQueries", pairs))

\* Route.Matcher: a custom matcher for the function named matcherFunc.
Matcher(r, matcherFunc) ==
    /\ routes' = addMatcher(r, [k |-> "custom", matcherFunc |-> matcherFunc])
    /\ ret' = Ret("Matcher", Nil, r, Nil, matcherFunc, NoErr)
    /\ UNCHANGED <<routers, requests, ctx, pkg, calls>>

\* Route.Clone when the clone is registered in the router of the route.
Clone_registered(r) ==
    /\ routes' = Append(routes,
                        [router |-> routes[r].router,
                         handler |-> routes[r].handler,
                         matchers |-> [i \in 1..Len(routes[r].matchers) |->
                                          routes[r].matchers[i]],
                         hostTemplate |-> routes[r].hostTemplate,
                         pathTemplate |-> routes[r].pathTemplate])
    /\ routers' = [routers EXCEPT ![routes[r].router].Routes =
                       Append(@, Len(routes) + 1)]
    /\ ret' = [Ret("Clone", Nil, r, Nil, <<>>, NoErr)
                  EXCEPT !.route = Len(routes) + 1]
    /\ UNCHANGED <<requests, ctx, pkg, calls>>

\* Route.Clone: a new Route with the router, the handler and the templates
\* of r and a copy of its matchers; no router is told of it.
Clone(r) ==
    /\ routes' = Append(routes,
                        [router |-> routes[r].router,
                         handler |-> routes[r].handler,
                         matchers |-> [i \in 1..Len(routes[r].matchers) |->
                                          routes[r].matchers[i]],
                         hostTemplate |-> routes[r].hostTemplate,
                         pathTemplate |-> routes[r].pathTemplate])
    /\ ret' = [Ret("Clone", Nil, r, Nil, <<>>, NoErr)
                  EXCEPT !.route = Len(routes) + 1]
    /\ UNCHANGED <<routers, requests, ctx, pkg, calls>>

\* Route.Handler.
Handler(r, handler) ==
    /\ routes' = [routes EXCEPT ![r].handler = <<handler>>]
    /\ ret' = Ret("Handler", Nil, r, Nil, handler, NoErr)
    /\ UNCHANGED <<routers, requests, ctx, pkg, calls>>

\* A Router-level factory: Router.NewRoute, then a builder call on the new
\* route.  made is [err, route, named]: what the builder made of the new
\* route (the route as NewRoute left it when the builder panicked), and the
\* name it registered, if any.
factory(op, rt, arg, made) ==
    /\ routes' = Append(routes, made.route)
    /\ routers' =
           [x \in DOMAIN routers |->
               [routers[x] EXCEPT
                   !.Routes = IF x = rt THEN Append(@, Len(routes) + 1) ELSE @,
                   !.NamedRoutes =
                       IF x = root(rt) /\ made.named # <<>>
                       THEN << [n \in DOMAIN (IF @ = <<>> THEN <<>> ELSE @[1])
                                         \cup {made.named[1]} |->
                                   IF n = made.named[1] THEN Len(routes) + 1
                                   ELSE @[1][n]] >>
                       ELSE @]]
    /\ ret' = [Ret(op, rt, Nil, Nil, arg, made.err)
                  EXCEPT !.route = IF made.err = NoErr THEN Len(routes) + 1 ELSE Nil]
    /\ UNCHANGED <<requests, ctx, pkg, calls>>

\* Route.Path on a route that NewRoute has just made: [err, route, named].
newRoutePath(rt, template) ==
    LET p == parseTemplate(template, <<"[^/]+">>, FALSE,
                           variableNames(<<newRoute(rt).hostTemplate>>))
        err == IF template = <<>> \/ template[1] # "/" THEN "errEmptyPath"
               ELSE p.err
    IN [err |-> err,
        route |-> IF err # NoErr THEN newRoute(rt)
                  ELSE [newRoute(rt) EXCEPT !.pathTemplate = <<p.tpl>>],
        named |-> <<>>]

\* Router.Path: r.NewRoute().Path(template).
Router_Path(rt, template) ==
    factory("Router.Path", rt, template, newRoutePath(rt, template))

\* Router.HandleFunc: r.NewRoute().HandleFunc(path, handler), which is
\* Path(path).Handler(handler) on the new route.
Router_HandleFunc(rt, path, handler) ==
    LET made == newRoutePath(rt, path)
    IN factory("Router.HandleFunc", rt, path,
               IF made.err # NoErr THEN made
               ELSE [made EXCEPT !.route.handler = <<handler>>])

\* Router.Methods: r.NewRoute().Methods(methods...).
Router_Methods(rt, methods) ==
    factory("Router.Methods", rt, methods,
            [err |-> IF Len(methods) = 0 THEN "errEmptyMethods" ELSE NoErr,
             route |-> IF Len(methods) = 0 THEN newRoute(rt)
                       ELSE [newRoute(rt) EXCEPT !.matchers =
                                <<[k |-> "methods",
                                   methods |-> [i \in 1..Len(methods) |->
                                                   ToUpper(methods[i])]]>>],
             named |-> <<>>])

\* Router.Name: r.NewRoute().Name(name).
Router_Name(rt, name) ==
    LET table == IF routers[root(rt)].NamedRoutes = <<>> THEN <<>>
                 ELSE routers[root(rt)].NamedRoutes[1]
    IN factory("Router.Name", rt, name,
               [err |-> IF name \in DOMAIN table THEN "errRouteName" ELSE NoErr,
                route |-> newRoute(rt),
                named |-> IF name \in DOMAIN table THEN <<>> ELSE <<name>>])

\* The package-level functions HandleFunc and Name, which call the methods
\* of DefaultRouter.
HandleFunc(path, handler) == Router_HandleFunc(pkg.DefaultRouter, path, handler)
mux_Name(name) == Router_Name(pkg.DefaultRouter, name)

\* http.NewRequest: slot q holds a new request from now on.  The store is
\* modelled for the live requests only: what it kept for the request the
\* slot held before belongs to that request, not to the new one.
NewRequest(q, req) ==
    /\ requests' = [x \in DOMAIN requests \cup {q} |->
                       IF x = q THEN req ELSE requests[x]]
    /\ ctx' = [x \in DOMAIN ctx \ {q} |-> ctx[x]]
    /\ ret' = Ret("NewRequest", Nil, Nil, q, <<>>, NoErr)
    /\ UNCHANGED <<routers, routes, pkg, calls>>

\* A Match that moves the route it returned to the front of the route list
\* of its router, for the next request to find it first.
MatchReturns_moveToFront(op, rt, r, q, res) ==
    LET home == IF res.ok THEN routes[res.route].router ELSE Nil
        front(list) == <<res.route>> \o SelectSeq(list, LAMBDA x : x # res.route)
    IN /\ ctx' = applyLog(ctx, q, res.log, 1)
       /\ routers' = [x \in DOMAIN routers |->
                         IF x = home /\ res.route \in Range(routers[x].Routes)
                         THEN [routers[x] EXCEPT !.Routes = front(@)]
                         ELSE routers[x]]
       /\ ret' = [Ret(op, rt, r, q, <<>>, NoErr)
                     EXCEPT !.route = res.route, !.ok = res.ok, !.log = res.log]
       /\ UNCHANGED <<routes, requests, pkg, calls>>

\* A Match returns res: the variables it stored are in the store.
MatchReturns(op, rt, r, q, res) ==
    /\ ctx' = applyLog(ctx, q, res.log, 1)
    /\ ret' = [Ret(op, rt, r, q, <<>>, NoErr)
                  EXCEPT !.route = res.route, !.ok = res.ok, !.log = res.log]
    /\ UNCHANGED <<routers, routes, requests, pkg, calls>>

\* Router.Match on the request of slot q.
Match(rt, q) ==
    MatchReturns("Router.Match", rt, Nil, q, RouterMatch(rt, requests[q]))

\* Route.Match on the request of slot q.
Route_Match(r, q) ==
    MatchReturns("Route.Match", Nil, r, q, RouteMatch(r, requests[q]))

\* The elements of a path: the runs of tokens between its slashes.
RECURSIVE Elements(_, _, _)
Elements(p, i, cur) ==
    IF i > Len(p) THEN <<cur>>
    ELSE IF p[i] = "/" THEN <<cur>> \o Elements(p, i + 1, <<>>)
    ELSE Elements(p, i + 1, Append(cur, p[i]))

\* path.Clean of a rooted path, element by element: empty elements and "."
\* are dropped, ".." drops the element before it, or nothing at the root.
RECURSIVE CleanFrom(_, _, _)
CleanFrom(es, i, kept) ==
    IF i > Len(es) THEN kept
    ELSE CleanFrom(es, i + 1,
                   IF es[i] \in {<<>>, <<".">>} THEN kept
                   ELSE IF es[i] = <<".", ".">>
                   THEN SubSeq(kept, 1, Len(kept) - 1)
                   ELSE Append(kept, es[i]))

\* The elements es joined, each after a slash.
RECURSIVE JoinFrom(_, _)
JoinFrom(es, i) ==
    IF i > Len(es) THEN <<>> ELSE <<"/">> \o es[i] \o JoinFrom(es, i + 1)

\* path.Clean of a rooted path.
Clean(p) ==
    IF CleanFrom(Elements(p, 1, <<>>), 1, <<>>) = <<>> THEN <<"/">>
    ELSE JoinFrom(CleanFrom(Elements(p, 1, <<>>), 1, <<>>), 1)

\* cleanPath after the slash was put in front of p.
cleanRooted(p) ==
    IF p[Len(p)] = "/" /\ Clean(p) # <<"/">> THEN Append(Clean(p), "/")
    ELSE Clean(p)

\* cleanPath: the canonical path for p.
cleanPath(p) ==
    IF p = <<>> THEN <<"/">>
    ELSE IF p[1] # "/" THEN cleanRooted(<<"/">> \o p)
    ELSE cleanRooted(p)

StatusMovedPermanently == 301

\* Route.GetHandler: *r.handler, a nil pointer when no handler was set.
\* The handler "nil" is the nil http.Handler.
GetHandler(r) ==
    IF routes[r].handler = <<>>
    THEN [err |-> "nil pointer dereference", handler |-> "nil"]
    ELSE [err |-> NoErr, handler |-> routes[r].handler[1]]

\* The store's clear operation (context.DefaultContext.Clear): nothing is
\* kept for request q any more.
ctxClear(store, q) == [x \in DOMAIN store \ {q} |-> store[x]]

\* Router.ServeHTTP after the path was found canonical: res is what
\* r.Match returned, got what GetHandler returned for its route.  When
\* GetHandler panics the deferred Clear is not registered yet.
ServeHTTPDispatch(rt, q, res, got, clear) ==
    /\ ctx' = IF got.err # NoErr \/ ~clear THEN applyLog(ctx, q, res.log, 1)
              ELSE ctxClear(applyLog(ctx, q, res.log, 1), q)
    /\ ret' = [Ret("ServeHTTP", rt, Nil, q, <<>>, got.err)
                  EXCEPT !.route = res.route, !.ok = res.ok, !.log = res.log,
                         !.served = IF got.err # NoErr THEN <<>>
                                    ELSE IF got.handler = "nil"
                                    THEN <<"NotFoundHandler">>
                                    ELSE <<got.handler>>]

\* Router.ServeHTTP for the request of slot q; clear tells whether the
\* store is cleared when the handler returns.
ServeHTTPCall(rt, q, clear) ==
    /\ IF cleanPath(requests[q].Path) # requests[q].Path
       THEN /\ ctx' = ctx
            /\ ret' = [Ret("ServeHTTP", rt, Nil, q, <<>>, NoErr)
                          EXCEPT !.status = StatusMovedPermanently,
                                 !.location = <<cleanPath(requests[q].Path)>>]
       ELSE ServeHTTPDispatch(rt, q, RouterMatch(rt, requests[q]),
                IF RouterMatch(rt, requests[q]).ok
                THEN GetHandler(RouterMatch(rt, requests[q]).route)
                ELSE [err |-> NoErr, handler |-> "nil"],
                clear)
    /\ UNCHANGED <<routers, routes, requests, pkg, calls>>

\* Router.ServeHTTP when the variables stay in the store after the handler
\* returned.
ServeHTTP_noClear(rt, q) == ServeHTTPCall(rt, q, FALSE)

\* Router.ServeHTTP.
ServeHTTP(rt, q) == ServeHTTPCall(rt, q, TRUE)

\* The ctx.Set calls of a match, in order.
sets(log) == SelectSeq(log, LAMBDA e : e.ev = "set")

\* The entry the store holds for request q, if any.
entry(store, q) == IF q \in DOMAIN store THEN <<store[q]>> ELSE <<>>

\* A goroutine calls Router.Match(rt) on the request of slot q: it reads
\* the routes, which no one writes while requests are served, and has not
\* yet reached a ctx.Set.  The call keeps what it read, the number of Set
\* calls it has made and the entry the store held for q when it began.
Match_go(rt, q) ==
    /\ q \notin DOMAIN calls
    /\ calls' = [x \in DOMAIN calls \cup {q} |->
                    IF x = q
                    THEN [rt |-> rt, res |-> RouterMatch(rt, requests[q]),
                          done |-> 0, before |-> entry(ctx, q)]
                    ELSE calls[x]]
    /\ ret' = Ret("go", rt, Nil, q, <<>>, NoErr)
    /\ UNCHANGED <<routers, routes, requests, ctx, pkg>>

\* The call sets the variables of every request in hand, as it would with
\* one variable map kept for the router.
Match_set_shared(q) ==
    /\ q \in DOMAIN calls
    /\ calls[q].done < Len(sets(calls[q].res.log))
    /\ ctx' = [x \in DOMAIN requests |->
                  sets(calls[q].res.log)[calls[q].done + 1].vars]
    /\ calls' = [calls EXCEPT ![q].done = @ + 1]
    /\ ret' = Ret("set", calls[q].rt, Nil, q, <<>>, NoErr)
    /\ UNCHANGED <<routers, routes, requests, pkg>>

\* The call of slot q makes its next ctx.Set(req, vars).
Match_set(q) ==
    /\ q \in DOMAIN calls
    /\ calls[q].done < Len(sets(calls[q].res.log))
    /\ ctx' = ctxSet(ctx, q, sets(calls[q].res.log)[calls[q].done + 1].vars)
    /\ calls' = [calls EXCEPT ![q].done = @ + 1]
    /\ ret' = Ret("set", calls[q].rt, Nil, q, <<>>, NoErr)
    /\ UNCHANGED <<routers, routes, requests, pkg>>

\* The call of slot q has made its Set calls and returns.
Match_return(q) ==
    /\ q \in DOMAIN calls
    /\ calls[q].done = Len(sets(calls[q].res.log))
    /\ calls' = [x \in DOMAIN calls \ {q} |-> calls[x]]
    /\ ret' = [Ret("return", calls[q].rt, Nil, q, <<>>, NoErr)
                  EXCEPT !.route = calls[q].res.route, !.ok = calls[q].res.ok,
                         !.log = calls[q].res.log]
    /\ UNCHANGED <<routers, routes, requests, ctx, pkg>>

\* Route.URL when a route without a host template takes the host template
\* of the route that holds its router.
URL_parentHost(r, values) ==
    LET parents == {x \in 1..Len(routes) :
                       \E i \in 1..Len(routes[x].matchers) :
                           /\ routes[x].matchers[i].k = "router"
                           /\ routes[x].matchers[i].router = routes[r].router}
        rt == IF routes[r].hostTemplate = <<>> /\ parents # {}
              THEN [routes[r] EXCEPT !.hostTemplate =
                       routes[CHOOSE x \in parents : TRUE].hostTemplate]
              ELSE routes[r]
        h == IF rt.hostTemplate # <<>>
             THEN reverseRoute(rt.hostTemplate[1], values)
             ELSE [err |-> NoErr, url |-> <<>>, name |-> <<>>]
        p == IF rt.pathTemplate # <<>>
             THEN reverseRoute(rt.pathTemplate[1], values)
             ELSE [err |-> NoErr, url |-> <<>>, name |-> <<>>]
        err == IF h.err # NoErr THEN h.err ELSE p.err
    IN /\ ret' = [Ret("URL", Nil, r, Nil, values, err)
                     EXCEPT !.name = IF h.err # NoErr THEN h.name ELSE p.name,
                            !.url = IF err # NoErr THEN <<>>
                                    ELSE << [Scheme |-> IF rt.hostTemplate # <<>>
                                                        THEN "http" ELSE "",
                                             Host |-> h.url,
                                             Path |-> p.url] >>]
       /\ UNCHANGED <<routers, routes, requests, ctx, pkg, calls>>

\* Route.URL, for the values a well-formed list of pairs stands for.
URL(r, values) ==
    LET rt == routes[r]
        h == IF rt.hostTemplate # <<>>
             THEN reverseRoute(rt.hostTemplate[1], values)
             ELSE [err |-> NoErr, url |-> <<>>, name |-> <<>>]
        p == IF rt.pathTemplate # <<>>
             THEN reverseRoute(rt.pathTemplate[1], values)
             ELSE [err |-> NoErr, url |-> <<>>, name |-> <<>>]
        err == IF h.err # NoErr THEN h.err ELSE p.err
    IN /\ ret' = [Ret("URL", Nil, r, Nil, values, err)
                     EXCEPT !.name = IF h.err # NoErr THEN h.name ELSE p.name,
                            !.url = IF err # NoErr THEN <<>>
                                    ELSE << [Scheme |-> IF rt.hostTemplate # <<>>
                                                        THEN "http" ELSE "",
                                             Host |-> h.url,
                                             Path |-> p.url] >>]
       /\ UNCHANGED <<routers, routes, requests, ctx, pkg, calls>>

\* Route.URLHost.
URLHost(r, values) ==
    LET rt == routes[r]
        h == IF rt.hostTemplate = <<>>
             THEN [err |-> "errMissingHost", url |-> <<>>, name |-> <<>>]
             ELSE reverseRoute(rt.hostTemplate[1], values)
    IN /\ ret' = [Ret("URLHost", Nil, r, Nil, values, h.err)
                     EXCEPT !.name = h.name,
                            !.url = IF h.err # NoErr THEN <<>>
                                    ELSE << [Scheme |-> "http", Host |-> h.url,
                                             Path |-> <<>>] >>]
       /\ UNCHANGED <<routers, routes, requests, ctx, pkg, calls>>

\* Route.URLPath.
URLPath(r, values) ==
    LET rt == routes[r]
        p == IF rt.pathTemplate = <<>>
             THEN [err |-> "errMissingPath", url |-> <<>>, name |-> <<>>]
             ELSE reverseRoute(rt.pathTemplate[1], values)
    IN /\ ret' = [Ret("URLPath", Nil, r, Nil, values, p.err)
                     EXCEPT !.name = p.name,
                            !.url = IF p.err # NoErr THEN <<>>
                                    ELSE << [Scheme |-> "", Host |-> <<>>,
                                             Path |-> p.url] >>]
       /\ UNCHANGED <<routers, routes, requests, ctx, pkg, calls>>

\* A call of parseTemplate returns p, which is [err, tpl].
parseTemplateReturns(args, p) ==
    /\ ret' = [Ret("parseTemplate", Nil, Nil, Nil, args, p.err)
                  EXCEPT !.tpl = IF p.err = NoErr THEN <<p.tpl>> ELSE <<>>]
    /\ UNCHANGED <<routers, routes, requests, ctx, pkg, calls>>

\* The call of parseTemplate that is about to be made, with the arguments
\* Host, Path and PathPrefix give it.
ParseTemplateCall(template, defaultPattern, prefix, names) ==
    Ret("call parseTemplate", Nil, Nil, Nil,
        [template |-> template, defaultPattern |-> defaultPattern,
         prefix |-> prefix, names |-> names], NoErr)

\* parseTemplate, for the call that is about to be made.
ParseTemplate ==
    /\ ret.op = "call parseTemplate"
    /\ parseTemplateReturns(ret.s,
                            parseTemplate(ret.s.template, ret.s.defaultPattern,
                                          ret.s.prefix, ret.s.names))

\* ------------------------------------------------------------------------
\* The router tree and matching: bounds, inputs, specification
\* ------------------------------------------------------------------------

MaxRoutes == 3
MaxRouters == 2

\* "{v}.d"
HostTemplates == { <<"{", "v", "}", ".", "d">> }
\* "/{k}"
PathTemplates == { <<"/", "{", "k", "}">> }

\* http://a.d/p, and requests that differ from it in the host or in the path.
Request(host, path, method) ==
    [Host |-> host, Path |-> path, Method |-> method, Scheme |-> "http",
     Header |-> <<>>, Query |-> <<>>]
Requests ==
    { Request(<<"a", ".", "d">>, <<"/", "p">>, "GET"),
      Request(<<"a", ".", "e">>, <<"/", "p">>, "GET"),
      Request(<<"a", ".", "d">>, <<"/", "p", "/", "q">>, "GET") }

RouterIds == 1..Len(routers)
RouteIds == 1..Len(routes)
Slots == {1}

\* The state after NewRouter().
Init ==
    /\ routers = <<NewRouter>>
    /\ routes = <<>>
    /\ requests = <<>>
    /\ ctx = <<>>
    /\ pkg = NoPackage
    /\ calls = <<>>
    /\ ret = Ret("NewRouter", 1, Nil, Nil, <<>>, NoErr)

\* Routers are built from routes with at most one host template, one path
\* template and one sub-router each, and requests are matched against any
\* router and any route of the tree.
Next ==
    \/ \E rt \in RouterIds : Len(routes) < MaxRoutes /\ NewRoute(rt)
    \/ \E r \in RouteIds :
          /\ Len(routers) < MaxRouters
          /\ routes[r].matchers = <<>>
          /\ Route_NewRouter(r)
    \/ \E r \in RouteIds, t \in HostTemplates :
          routes[r].hostTemplate = <<>> /\ Host(r, t)
    \/ \E r \in RouteIds, t \in PathTemplates :
          routes[r].pathTemplate = <<>> /\ Path(r, t)
    \/ \E q \in Slots, req \in Requests : NewRequest(q, req)
    \/ \E rt \in RouterIds, q \in DOMAIN requests : Match(rt, q)
    \/ \E r \in RouteIds, q \in DOMAIN requests : Route_Match(r, q)

Spec == Init /\ [][Next]_vars

\* ------------------------------------------------------------------------
\* One route and its templates: inputs, specification
\* ------------------------------------------------------------------------

\* "{v}.d", "{v:a|b}.d", "{k}.d" and the empty template
RouteHostTemplates ==
    { <<"{", "v", "}", ".", "d">>,
      <<"{", "v", ":", "a", "|", "b", "}", ".", "d">>,
      <<"{", "k", "}", ".", "d">>,
      <<>> }
\* "/{k}", "/{v}", "/{k}/{k}" and a template without the leading slash
RoutePathTemplates ==
    { <<"/", "{", "k", "}">>,
      <<"/", "{", "v", "}">>,
      <<"/", "{", "k", "}", "/", "{", "k", "}">>,
      <<"p">> }
MethodLists == { <<"post">> }

\* The requests of the tree, and http://a.d/p sent with POST.
RouteRequests ==
    Requests \cup { Request(<<"a", ".", "d">>, <<"/", "p">>, "POST") }

\* The state after NewRouter().NewRoute().
InitRoute ==
    /\ routers = <<[NewRouter EXCEPT !.Routes = <<1>>]>>
    /\ routes = <<newRoute(1)>>
    /\ requests = <<>>
    /\ ctx = <<>>
    /\ pkg = NoPackage
    /\ calls = <<>>
    /\ ret = [Ret("NewRoute", 1, Nil, Nil, <<>>, NoErr) EXCEPT !.route = 1]

\* The templates of the route are set, and set again, in any order; the
\* route gets at most one methods matcher; requests are matched against it.
NextRoute ==
    \/ \E t \in RouteHostTemplates : Host(1, t)
    \/ \E t \in RoutePathTemplates : Path(1, t)
    \/ \E t \in RoutePathTemplates : PathPrefix(1, t)
    \/ \E ms \in MethodLists : routes[1].matchers = <<>> /\ Methods(1, ms)
    \/ \E q \in Slots, req \in RouteRequests : NewRequest(q, req)
    \/ \E q \in DOMAIN requests : Route_Match(1, q)

SpecRoute == InitRoute /\ [][NextRoute]_vars

\* ------------------------------------------------------------------------
\* URL building: inputs, specification
\* ------------------------------------------------------------------------

\* "{v:a|b}.d", "a.d"
URLHostTemplates ==
    { <<"{", "v", ":", "a", "|", "b", "}", ".", "d">>,
      <<"a", ".", "d">> }
\* "/{k}", "/%/{k}", "/{k}/{j:[a-z]+}", "/{k:[a-z]+}{j:[a-z]+}", "/p", "/%"
URLPathTemplates ==
    { <<"/", "{", "k", "}">>,
      <<"/", "%", "/", "{", "k", "}">>,
      <<"/", "{", "k", "}", "/", "{", "j", ":", "[a-z]+", "}">>,
      <<"/", "{", "k", ":", "[a-z]+", "}", "{", "j", ":", "[a-z]+", "}">>,
      <<"/", "p">>,
      <<"/", "%">> }

\* The maps a call gives as pairs: any of v, k and j, with values the
\* patterns accept and values they do not.
MapOf(v, k, j) ==
    [n \in (IF v = <<>> THEN {} ELSE {<<"v">>})
               \cup (IF k = <<>> THEN {} ELSE {<<"k">>})
               \cup (IF j = <<>> THEN {} ELSE {<<"j">>})
        |-> IF n = <<"v">> THEN v[1] ELSE IF n = <<"k">> THEN k[1] ELSE j[1]]
URLValues ==
    { MapOf(v, k, j) :
        v \in { <<>>, << <<"a">> >>, << <<"a", "b">> >> },
        k \in { <<>>, << <<"1">> >>, << <<"p">> >>, << <<"p", "/", "q">> >> },
        j \in { <<>>, << <<"q", "q">> >> } }

\* The templates of the route are set, and URLs are built from them.
NextURL ==
    \/ \E t \in URLHostTemplates : Host(1, t)
    \/ \E t \in URLPathTemplates : Path(1, t)
    \/ \E t \in URLPathTemplates : PathPrefix(1, t)
    \/ \E values \in URLValues : URL(1, values)
    \/ \E values \in URLValues : URLHost(1, values)
    \/ \E values \in URLValues : URLPath(1, values)

SpecURL == InitRoute /\ [][NextURL]_vars

\* ------------------------------------------------------------------------
\* Named routes: bounds, inputs, specification
\* ------------------------------------------------------------------------

MaxNamedRouters == 3
Names == {"n1", "n2"}

\* Routes and sub-routers are made anywhere in the tree and routes are named.
NextNames ==
    \/ \E rt \in RouterIds : Len(routes) < MaxRoutes /\ NewRoute(rt)
    \/ \E r \in RouteIds : Len(routers) < MaxNamedRouters /\ Route_NewRouter(r)
    \/ \E r \in RouteIds, name \in Names : Name(r, name)

SpecNames == Init /\ [][NextNames]_vars

\* ------------------------------------------------------------------------
\* One route and its matchers: bounds, inputs, specification
\* ------------------------------------------------------------------------

MaxMatchers == 2

\* What the builders of matchers are called with: no strings, an odd
\* number of strings, names in upper, lower and mixed case, empty values.
MatcherMethods == { <<>>, <<"get">>, <<"post", "GET">> }
MatcherSchemes == { <<>>, <<"HTTPS", "Http">> }
MatcherHeaders ==
    { <<>>, <<"x-foo">>, <<"x-foo", "">>, <<"X-Foo", "1">>,
      <<"x-foo", "1", "X-Bar", "">> }
MatcherQueries ==
    { <<>>, <<"foo">>, <<"foo", "">>, <<"foo", "1">> }
\* the empty template, "p" and "/p"
MatcherHostTemplates == { <<>> }
MatcherPathTemplates == { <<>>, <<"p">>, <<"/", "p">> }
MatcherPrefixTemplates == { <<>>, <<"p">> }

\* GET http://a.d/p with no headers and no query, and requests that differ
\* from it in the method, in the scheme, in the headers or in the query.
\* Header and Query map a key to the list of its values.
MatcherRequest(method, scheme, header, query) ==
    [Request(<<"a", ".", "d">>, <<"/", "p">>, method)
        EXCEPT !.Scheme = scheme, !.Header = header, !.Query = query]
MatcherRequests ==
    { MatcherRequest(m, "http", <<>>, <<>>) : m \in {"GET", "get", "POST"} }
    \cup { MatcherRequest("GET", sch, <<>>, <<>>) : sch \in {"HTTPS"} }
    \cup { MatcherRequest("GET", "http", h, <<>>) :
               h \in { [k \in {"X-Foo"} |-> <<"2", "1">>],
                       [k \in {"X-Foo"} |-> <<"2">>],
                       [k \in {"X-Foo", "X-Bar"} |-> <<"1">>] } }
    \cup { MatcherRequest("GET", "http", <<>>, qs) :
               qs \in { [k \in {"foo"} |-> <<"2", "1">>],
                        [k \in {"foo"} |-> <<"2">>],
                        [k \in {"Foo"} |-> <<"1">>] } }

\* The route is given templates and up to MaxMatchers matchers, by calls
\* that succeed and calls that fail, and requests are matched against it.
NextMatchers ==
    \/ \E t \in MatcherHostTemplates : Host(1, t)
    \/ \E t \in MatcherPathTemplates : Path(1, t)
    \/ \E t \in MatcherPrefixTemplates : PathPrefix(1, t)
    \/ \E ms \in MatcherMethods :
          Len(routes[1].matchers) < MaxMatchers /\ Methods(1, ms)
    \/ \E ss \in MatcherSchemes :
          Len(routes[1].matchers) < MaxMatchers /\ Schemes(1, ss)
    \/ \E pairs \in MatcherHeaders :
          Len(routes[1].matchers) < MaxMatchers /\ Headers(1, pairs)
    \/ \E pairs \in MatcherQueries :
          Len(routes[1].matchers) < MaxMatchers /\ Queries(1, pairs)
    \/ \E q \in Slots, req \in MatcherRequests : NewRequest(q, req)
    \/ \E q \in DOMAIN requests : Route_Match(1, q)

SpecMatchers == InitRoute /\ [][NextMatchers]_vars

\* ------------------------------------------------------------------------
\* Template parsing: bounds, inputs, specification
\* ------------------------------------------------------------------------

MaxPieces == 4

\* The pieces templates are put together from: braces, a colon, names, an
\* open parenthesis, a group and the literal text "%s".
Pieces ==
    { <<"{">>, <<"}">>, <<":">>, <<"k">>, <<"(">>, <<"{", "k">>,
      <<"{", "j", "}">>, <<"%", "s">> }

\* The texts of at most n pieces.
RECURSIVE PieceTexts(_)
PieceTexts(n) ==
    IF n = 0 THEN { <<>> }
    ELSE PieceTexts(n - 1) \cup {t \o p : t \in PieceTexts(n - 1), p \in Pieces}

ParseTemplates == PieceTexts(MaxPieces)

\* The default pattern and the prefix flag of Host and of PathPrefix.
ParseModes ==
    { [defaultPattern |-> <<"[^.]+">>, prefix |-> FALSE],
      [defaultPattern |-> <<"[^/]+">>, prefix |-> TRUE] }

\* The names the route has when the template is parsed: none, or k.
ParseNames == { <<>>, << <<"k">> >> }

\* A call of parseTemplate with a template, well formed or not, is about
\* to be made.
InitParse ==
    /\ routers = <<NewRouter>>
    /\ routes = <<>>
    /\ requests = <<>>
    /\ ctx = <<>>
    /\ pkg = NoPackage
    /\ calls = <<>>
    /\ ret \in {ParseTemplateCall(t, mode.defaultPattern, mode.prefix, names) :
                    t \in ParseTemplates, mode \in ParseModes, names \in ParseNames}

NextParse == ParseTemplate

SpecParse == InitParse /\ [][NextParse]_vars

\* ------------------------------------------------------------------------
\* The default router and the factories: bounds, inputs, specification
\* ------------------------------------------------------------------------

MaxFactoryRoutes == 2

\* "/p", and templates the builders refuse: "p", "/{k"
FactoryPaths == { <<"/", "p">>, <<"p">>, <<"/", "{", "k">> }
FactoryMethods == { <<>>, <<"post">> }
Handlers == {"h1"}
FactoryNames == {"n1"}

\* http://a.d/p, sent with GET.
FactoryRequests == { Request(<<"a", ".", "d">>, <<"/", "p">>, "GET") }

\* The state after the package is initialised: DefaultRouter is made by
\* NewRouter() (mux.go) or by new(Router) (defaultrouter.go), and
\* NamedRoutes is the value of DefaultRouter.NamedRoutes at that moment.
InitDefault ==
    /\ routers \in { <<NewRouter>>, <<new_Router>> }
    /\ routes = <<>>
    /\ requests = <<>>
    /\ ctx = <<>>
    /\ pkg = [DefaultRouter |-> 1,
              NamedRoutes |-> IF routers[1].NamedRoutes = <<>> THEN Nil ELSE 1]
    /\ calls = <<>>
    /\ ret = Ret("init", 1, Nil, Nil, <<>>, NoErr)

\* Routes are made by the package-level functions and by the factories of
\* the routers, with arguments the builders accept and arguments they
\* refuse; routes are named; a route gets a sub-router; requests are matched.
NextDefault ==
    \/ \E t \in FactoryPaths, h \in Handlers :
          Len(routes) < MaxFactoryRoutes /\ HandleFunc(t, h)
    \/ \E name \in FactoryNames : Len(routes) < MaxFactoryRoutes /\ mux_Name(name)
    \/ \E rt \in RouterIds, t \in FactoryPaths :
          Len(routes) < MaxFactoryRoutes /\ Router_Path(rt, t)
    \/ \E rt \in RouterIds, ms \in FactoryMethods :
          Len(routes) < MaxFactoryRoutes /\ Router_Methods(rt, ms)
    \/ \E rt \in RouterIds, name \in FactoryNames :
          Len(routes) < MaxFactoryRoutes /\ Router_Name(rt, name)
    \/ \E r \in RouteIds, name \in FactoryNames : Name(r, name)
    \/ \E r \in RouteIds :
          Len(routers) < MaxRouters /\ routes[r].matchers = <<>> /\ Route_NewRouter(r)
    \/ \E q \in Slots, req \in FactoryRequests : NewRequest(q, req)
    \/ \E rt \in RouterIds, q \in DOMAIN requests : Match(rt, q)

SpecDefault == InitDefault /\ [][NextDefault]_vars

\* ------------------------------------------------------------------------
\* URL building in a router tree: bounds, inputs, specification
\* ------------------------------------------------------------------------

MaxNestedRoutes == 2

\* "{v}.d"
NestedHostTemplates == { <<"{", "v", "}", ".", "d">> }
\* "/p"
NestedPathTemplates == { <<"/", "p">> }
\* No pairs, and v=a.
NestedValues == { MapOf(<<>>, <<>>, <<>>), MapOf(<< <<"a">> >>, <<>>, <<>>) }

\* Routes with and without templates are made in the root and in
\* sub-routers, and URLs are built from any of them.
NextNested ==
    \/ \E rt \in RouterIds : Len(routes) < MaxNestedRoutes /\ NewRoute(rt)
    \/ \E r \in RouteIds :
          /\ Len(routers) < MaxRouters
          /\ routes[r].matchers = <<>>
          /\ Route_NewRouter(r)
    \/ \E r \in RouteIds, t \in NestedHostTemplates :
          routes[r].hostTemplate = <<>> /\ Host(r, t)
    \/ \E r \in RouteIds, t \in NestedPathTemplates :
          routes[r].pathTemplate = <<>> /\ Path(r, t)
    \/ \E r \in RouteIds, values \in NestedValues : URL(r, values)
    \/ \E r \in RouteIds, values \in NestedValues : URLHost(r, values)
    \/ \E r \in RouteIds, values \in NestedValues : URLPath(r, values)

SpecNested == Init /\ [][NextNested]_vars

\* ------------------------------------------------------------------------
\* One route and the order of its checks: bounds, inputs, specification
\* ------------------------------------------------------------------------

MaxOrderRoutes == 2
MaxOrderMatchers == 2

\* "a.d" and "/p"
OrderHostTemplates == { <<"a", ".", "d">> }
OrderPathTemplates == { <<"/", "p">> }
MatcherFuncs == {"isGet", "never"}

\* GET http://a.d/p, and requests that differ from it in the method, in the
\* host or in the path.
OrderRequests ==
    { Request(<<"a", ".", "d">>, <<"/", "p">>, "GET"),
      Request(<<"a", ".", "d">>, <<"/", "p">>, "POST"),
      Request(<<"b", ".", "d">>, <<"/", "p">>, "GET"),
      Request(<<"a", ".", "d">>, <<"/", "q">>, "GET") }

\* The route is given templates, custom matchers and a sub-router, in any
\* order; the sub-router gets routes; requests are matched against the route.
NextOrder ==
    \/ \E t \in OrderHostTemplates : routes[1].hostTemplate = <<>> /\ Host(1, t)
    \/ \E t \in OrderPathTemplates : routes[1].pathTemplate = <<>> /\ Path(1, t)
    \/ \E f \in MatcherFuncs :
          Len(routes[1].matchers) < MaxOrderMatchers /\ Matcher(1, f)
    \/ /\ Len(routers) < MaxRouters
       /\ Len(routes[1].matchers) < MaxOrderMatchers
       /\ Route_NewRouter(1)
    \/ \E rt \in RouterIds \ {1} : Len(routes) < MaxOrderRoutes /\ NewRoute(rt)
    \/ \E q \in Slots, req \in OrderRequests : NewRequest(q, req)
    \/ \E q \in DOMAIN requests : Route_Match(1, q)

SpecOrder == InitRoute /\ [][NextOrder]_vars

\* ------------------------------------------------------------------------
\* A route and its clones: bounds, inputs, specification
\* ------------------------------------------------------------------------

MaxClones == 1
MaxCloneMatchers == 3

\* The requests the routes are tried on: GET and POST http://a.d/p.
CloneRequests ==
    { Request(<<"a", ".", "d">>, <<"/", "p">>, "GET"),
      Request(<<"a", ".", "d">>, <<"/", "p">>, "POST") }

\* The first route of the root router and its clones.
Family == {r \in RouteIds : routes[r].router = 1}

\* The number of matchers the routes hold.
RECURSIVE MatchersFrom(_)
MatchersFrom(r) ==
    IF r > Len(routes) THEN 0 ELSE Len(routes[r].matchers) + MatchersFrom(r + 1)

\* The route is given a path template and a handler, the route and its
\* clones are given custom matchers, in any order, and they are cloned,
\* until the routes hold MaxCloneMatchers matchers.
NextClone ==
    \/ \E t \in OrderPathTemplates : routes[1].pathTemplate = <<>> /\ Path(1, t)
    \/ \E h \in Handlers : routes[1].handler = <<>> /\ Handler(1, h)
    \/ \E r \in Family, f \in MatcherFuncs :
          MatchersFrom(1) < MaxCloneMatchers /\ Matcher(r, f)
    \/ \E r \in Family :
          /\ Len(routes) < 1 + MaxClones
          /\ MatchersFrom(1) + Len(routes[r].matchers) <= MaxCloneMatchers
          /\ Clone(r)

SpecClone == InitRoute /\ [][NextClone]_vars

\* ------------------------------------------------------------------------
\* Matching with several requests in hand: bounds, inputs, specification
\* ------------------------------------------------------------------------

MaxFrameRoutes == 2

\* http://a.d/p and http://b.d/q
FrameRequests ==
    { Request(<<"a", ".", "d">>, <<"/", "p">>, "GET"),
      Request(<<"b", ".", "d">>, <<"/", "q">>, "GET") }
FrameSlots == {1, 2}

\* The routes of the router get templates, the first of them a handler and
\* a name; two requests are in hand and are matched against the router and its routes.
NextFrame ==
    \/ Len(routes) < MaxFrameRoutes /\ NewRoute(1)
    \/ \E r \in RouteIds, t \in HostTemplates :
          routes[r].hostTemplate = <<>> /\ Host(r, t)
    \/ \E r \in RouteIds, t \in PathTemplates :
          routes[r].pathTemplate = <<>> /\ Path(r, t)
    \/ \E h \in Handlers :
          routes # <<>> /\ routes[1].handler = <<>> /\ Handler(1, h)
    \/ \E name \in FactoryNames :
          /\ routes # <<>>
          /\ routers[1].NamedRoutes \in {<<>>, << <<>> >>}
          /\ Name(1, name)
    \/ \E q \in FrameSlots, req \in FrameRequests :
          q \notin DOMAIN requests /\ q - 1 \in DOMAIN requests \cup {0}
          /\ NewRequest(q, req)
    \/ \E q \in DOMAIN requests : Match(1, q)
    \/ \E r \in RouteIds, q \in DOMAIN requests : Route_Match(r, q)

SpecFrame == Init /\ [][NextFrame]_vars

\* ------------------------------------------------------------------------
\* Requests matched concurrently: bounds, inputs, specification
\* ------------------------------------------------------------------------

MaxGoRoutes == 2

\* The tree is built before the first request arrives: routes with a host
\* template, a path template, a sub-router.  Then requests arrive and each
\* is matched against the router by a goroutine of its own; the steps of
\* the goroutines interleave.
NextGo ==
    \/ \E rt \in RouterIds :
          requests = <<>> /\ Len(routes) < MaxGoRoutes /\ NewRoute(rt)
    \/ \E r \in RouteIds :
          /\ requests = <<>>
          /\ Len(routers) < MaxRouters
          /\ routes[r].matchers = <<>>
          /\ Route_NewRouter(r)
    \/ \E r \in RouteIds, t \in HostTemplates :
          requests = <<>> /\ routes[r].hostTemplate = <<>> /\ Host(r, t)
    \/ \E r \in RouteIds, t \in PathTemplates :
          requests = <<>> /\ routes[r].pathTemplate = <<>> /\ Path(r, t)
    \/ \E q \in FrameSlots, req \in FrameRequests :
          q \notin DOMAIN requests /\ q - 1 \in DOMAIN requests \cup {0}
          /\ NewRequest(q, req)
    \/ \E q \in DOMAIN requests : Match_go(1, q)
    \/ \E q \in DOMAIN requests : Match_set(q)
    \/ \E q \in DOMAIN requests : Match_return(q)

SpecGo == Init /\ [][NextGo]_vars

\* ------------------------------------------------------------------------
\* Requests served: bounds, inputs, specification
\* ------------------------------------------------------------------------

MaxServeRoutes == 2

\* A handler and the nil http.Handler.
ServeHandlers == {"h1", "nil"}

\* Requests to a.d with the paths "/p", "/p/", "//p", "/p/../q" and the
\* empty path.
ServeRequests ==
    { Request(<<"a", ".", "d">>, path, "GET") :
        path \in { <<"/", "p">>,
                   <<"/", "p", "/">>,
                   <<"/", "/", "p">>,
                   <<"/", "p", "/", ".", ".", "/", "q">>,
                   <<>> } }

\* Routes are made in the router and in a sub-router of its first route and
\* get a path template and a handler; a request arrives and the router serves it, before more
\* routes are made or after.
NextServe ==
    \/ \E rt \in RouterIds : Len(routes) < MaxServeRoutes /\ NewRoute(rt)
    \/ /\ routes # <<>>
       /\ routes[1].matchers = <<>>
       /\ Route_NewRouter(1)
    \/ \E r \in RouteIds, t \in PathTemplates :
          routes[r].pathTemplate = <<>> /\ Path(r, t)
    \/ \E r \in RouteIds, h \in ServeHandlers :
          routes[r].handler = <<>> /\ Handler(r, h)
    \/ \E q \in Slots, req \in ServeRequests :
          requests = <<>> /\ NewRequest(q, req)
    \/ \E q \in DOMAIN requests : ServeHTTP(1, q)

SpecServe == Init /\ [][NextServe]_vars

\* ------------------------------------------------------------------------
\* Properties of matching
\* ------------------------------------------------------------------------

\* The positions in the routes of router rt of the routes that match req.
Hits(rt, req) ==
    {i \in 1..Len(routers[rt].Routes) : RouteMatch(routers[rt].Routes[i], req).ok}

First(S) == CHOOSE i \in S : \A j \in S : i <= j

\* The sub-routers among the matchers of route r.
SubRouters(r) ==
    {routes[r].matchers[i].router :
        i \in {j \in 1..Len(routes[r].matchers) : routes[r].matchers[j].k = "router"}}

\* The number of ctx.Set calls a log records.
Sets(log) == Cardinality({i \in 1..Len(log) : log[i].ev = "set"})

\* The last call was a Match, of a router or of a route.
IsMatch(rec) == rec.op \in {"Router.Match", "Route.Match"}

\* C1: Router.Match returns what the earliest registered route that matches
\* the request returns, and reports no match, with no route, exactly when no
\* route of the router matches.
C1_EarliestMatchingRoute ==
    ret.op = "Router.Match" =>
        LET req == requests[ret.q]
            hits == Hits(ret.rt, req)
        IN IF hits = {} THEN ~ret.ok /\ ret.route = Nil
           ELSE /\ ret.ok
                /\ ret.route =
                       RouteMatch(routers[ret.rt].Routes[First(hits)], req).route

\* A match where the first route of the router fails and two later ones match.
C1_Witness ==
    /\ ret.op = "Router.Match"
    /\ ret.ok
    /\ LET hits == Hits(ret.rt, requests[ret.q])
       IN 1 \notin hits /\ Cardinality(hits) >= 2

\* C2: when the route the root router resolves the request through has a
\* sub-router, Router.Match on the root returns the first route of the
\* sub-router, in its order, that matches, which is not the parent route
\* and has no sub-router of its own.
C2_SubRouterInnermost ==
    ret.op = "Router.Match" /\ ret.rt = root(ret.rt) =>
        LET req == requests[ret.q]
            hits == Hits(ret.rt, req)
            P == routers[ret.rt].Routes[First(hits)]
        IN hits # {} /\ SubRouters(P) # {} =>
              \E sub \in SubRouters(P) :
                  LET inner == Hits(sub, req)
                  IN /\ inner # {}
                     /\ ret.route =
                            RouteMatch(routers[sub].Routes[First(inner)], req).route
                     /\ ret.route # P
                     /\ SubRouters(ret.route) = {}

\* A match on the root through a parent route with a template and a
\* sub-router of which two routes match.
C2_Witness ==
    /\ ret.op = "Router.Match"
    /\ ret.rt = root(ret.rt)
    /\ ret.ok
    /\ LET req == requests[ret.q]
           P == routers[ret.rt].Routes[First(Hits(ret.rt, req))]
       IN /\ routes[P].hostTemplate # <<>> \/ routes[P].pathTemplate # <<>>
          /\ \E sub \in SubRouters(P) : Cardinality(Hits(sub, req)) >= 2

\* The captures of template tpl (nil or one template) on text s bind every
\* variable of the template in vs.
Bound(tpl, s, vs) ==
    tpl # <<>> =>
        LET matches == FindStringSubmatch(tpl[1].Regexp, s)
        IN \A k \in 1..Len(tpl[1].VarsN) :
              /\ tpl[1].VarsN[k] \in DOMAIN vs
              /\ vs[tpl[1].VarsN[k]] = matches[k + 1]

\* C3: after a Router.Match that resolves to a route R of a sub-router, the
\* variables stored for the request hold every variable of R's own host and
\* path templates, bound to what the templates captured.
C3_VarsOfMatchedRoute ==
    ret.op = "Router.Match" /\ ret.ok /\ routes[ret.route].router # ret.rt =>
        /\ ret.q \in DOMAIN ctx
        /\ Bound(routes[ret.route].hostTemplate, requests[ret.q].Host, ctx[ret.q])
        /\ Bound(routes[ret.route].pathTemplate, requests[ret.q].Path, ctx[ret.q])

\* C4: every successful Router.Match calls the store's set exactly once,
\* sub-routers included.
C4_SetOnce ==
    ret.op = "Router.Match" /\ ret.ok => Sets(ret.log) = 1

\* C6: a Route.Match or Router.Match that returns false has written nothing
\* to the store and reports no error.
C6_FailedMatchWritesNothing ==
    [][IsMatch(ret') /\ ~ret'.ok => ctx' = ctx /\ ret'.err = NoErr]_vars

\* A Router.Match over two routes or more fails for a request that has
\* variables in the store from an earlier match.
C6_Witness ==
    /\ ret.op = "Router.Match"
    /\ ~ret.ok
    /\ Len(routers[ret.rt].Routes) >= 2
    /\ ret.q \in DOMAIN ctx
    /\ ctx[ret.q] # <<>>

\* ------------------------------------------------------------------------
\* Properties of named routes
\* ------------------------------------------------------------------------

\* The name table of router rt: empty when the router has none.
Table(rt) ==
    IF routers[rt].NamedRoutes = <<>> THEN <<>> ELSE routers[rt].NamedRoutes[1]

\* The routes registered under name n in any router of the tree.
NamedAs(n) == {Table(rt)[n] : rt \in {x \in RouterIds : n \in DOMAIN Table(x)}}

\* The route that holds router rt as a matcher.
ParentRoute(rt) == CHOOSE r \in RouteIds : rt \in SubRouters(r)

\* C8: Route.Name panics with the duplicated-name error whenever the name is
\* registered already, by any route of the tree, and the name then still
\* belongs to the route that had it.
C8_DuplicateNamePanics ==
    [][\A n \in Names :
           ret'.op = "Name" /\ ret'.s = n /\ NamedAs(n) # {} =>
               /\ ret'.err = "errRouteName"
               /\ NamedAs(n)' = NamedAs(n)]_vars

\* A route of a sub-router is refused a name that a route of another
\* router holds.
C8_Witness ==
    /\ ret.op = "Name"
    /\ ret.err = "errRouteName"
    /\ routes[ret.r].router # 1
    /\ \E first \in NamedAs(ret.s) :
          first # ret.r /\ routes[first].router # routes[ret.r].router

\* C9: whatever routes and sub-routers are made and named, a route that is
\* given a name is in the name table of the root under that name and stays
\* there, every sub-router refers to the top-most router as its root, and no
\* sub-router holds a name table of its own.
C9_NamesAtRoot ==
    [][/\ ret'.op = "Name" /\ ret'.err = NoErr =>
              ret'.s \in DOMAIN Table(1)' /\ Table(1)'[ret'.s] = ret'.r
       /\ \A n \in DOMAIN Table(1) :
              n \in DOMAIN Table(1)' /\ Table(1)'[n] = Table(1)[n]
       /\ \A rt \in RouterIds' \ {1} :
              /\ routers'[rt].rootRouter = 1
              /\ routers'[rt].NamedRoutes = <<>>
       /\ routers'[1].rootRouter = Nil]_vars

\* A route of a sub-router of a sub-router has been given a name.
C9_Witness ==
    /\ ret.op = "Name"
    /\ ret.err = NoErr
    /\ routes[ret.r].router # 1
    /\ routes[ParentRoute(routes[ret.r].router)].router # 1

\* The package-level map NamedRoutes, as the program reads it: a nil map
\* reads as an empty one.
NamedRoutes == IF pkg.NamedRoutes = Nil THEN <<>> ELSE Table(pkg.NamedRoutes)

\* C21: the package-level NamedRoutes holds every name that the name table
\* of DefaultRouter holds, for the same route: a route of the default
\* router that was given a name n is NamedRoutes[n].
C21_NamedRoutesIsDefaultTable ==
    \A n \in DOMAIN Table(pkg.DefaultRouter) :
        n \in DOMAIN NamedRoutes /\ NamedRoutes[n] = Table(pkg.DefaultRouter)[n]

\* The last call was a Router-level factory.
IsFactory(rec) ==
    rec.op \in {"Router.Path", "Router.HandleFunc", "Router.Methods", "Router.Name"}

\* C28: a Router-level factory call that fails leaves the route list of
\* its router as it was.
C28_FailedFactoryLeavesRoutes ==
    [][IsFactory(ret') /\ ret'.err # NoErr =>
           routers'[ret'.rt].Routes = routers[ret'.rt].Routes]_vars

\* ------------------------------------------------------------------------
\* Properties of one route's templates
\* ------------------------------------------------------------------------

\* The variable names of the host and path templates of route r.
NamesOf(r) == variableNames(<<routes[r].hostTemplate, routes[r].pathTemplate>>)

\* C5: a successful Route.Match of a route that has a host or a path
\* template and no sub-router stores for the request a map whose keys are
\* the variable names of the two templates, the i-th name of each template
\* bound to the i-th group of that template's match.
C5_VarsOfRoute ==
    /\ ret.op = "Route.Match"
    /\ ret.ok
    /\ routes[ret.r].hostTemplate # <<>> \/ routes[ret.r].pathTemplate # <<>>
    /\ SubRouters(ret.r) = {}
    => /\ ret.q \in DOMAIN ctx
       /\ DOMAIN ctx[ret.q] = Range(NamesOf(ret.r))
       /\ Bound(routes[ret.r].hostTemplate, requests[ret.q].Host, ctx[ret.q])
       /\ Bound(routes[ret.r].pathTemplate, requests[ret.q].Path, ctx[ret.q])

\* C7: the calls of Host, Path and PathPrefix that do not fail leave the
\* route with variable names that are all different, within each template
\* and between the two: a call that brings a name the route has is refused
\* and changes nothing.
C7_DistinctVariableNames ==
    \A i, j \in 1..Len(NamesOf(1)) : i # j => NamesOf(1)[i] # NamesOf(1)[j]

\* The text a built URL holds for template tpl is matched by its regexp.
Matched(tpl, text) == tpl # <<>> => MatchString(tpl[1].Regexp, text)

\* C10: a URL part that the reverse builder returns without an error is
\* matched by the regexp of the template it was built from.
C10_BuiltURLMatches ==
    ret.op \in {"URL", "URLHost", "URLPath"} /\ ret.err = NoErr =>
        /\ ret.op # "URLPath" => Matched(routes[ret.r].hostTemplate, ret.url[1].Host)
        /\ ret.op # "URLHost" => Matched(routes[ret.r].pathTemplate, ret.url[1].Path)

\* ------------------------------------------------------------------------
\* Properties of matchers
\* ------------------------------------------------------------------------

\* Matcher i of the route of the last Route.Match was asked, and it
\* accepted the request: the next matcher was asked or, after the last
\* matcher, the route matched.
Asked(i) == \E e \in 1..Len(ret.log) : ret.log[e].ev = "matcher" /\ ret.log[e].i = i
Accepted(i) ==
    /\ Asked(i)
    /\ IF i < Len(routes[ret.r].matchers) THEN Asked(i + 1) ELSE ret.ok

\* The matchers of the route of the last Route.Match that were asked and
\* are header or query matchers.
MapMatchers ==
    {i \in 1..Len(routes[ret.r].matchers) :
        Asked(i) /\ routes[ret.r].matchers[i].k \in {"headers", "queries"}}

\* What map matcher m was configured with, the map of the request it looks
\* in, and the key of that map it looks up for its key k.
Configured(m) == IF m.k = "headers" THEN m.headers ELSE m.queries
LooksIn(m, req) == IF m.k = "headers" THEN req.Header ELSE req.Query
LooksUp(m, k) == IF m.k = "headers" THEN CanonicalHeaderKey(k) ELSE k

\* C15: a header or query matcher configured with the empty string for
\* each of its keys accepts the requests that carry every key, whatever the
\* values, and rejects the requests that lack one.
C15_EmptyValueMatchesAnyValue ==
    ret.op = "Route.Match" =>
        \A i \in MapMatchers :
            LET m == routes[ret.r].matchers[i]
                req == requests[ret.q]
            IN (\A k \in DOMAIN Configured(m) : Configured(m)[k] = "") =>
                   (Accepted(i) <=>
                       \A k \in DOMAIN Configured(m) :
                           LooksUp(m, k) \in DOMAIN LooksIn(m, req))

\* C16: a header or query matcher accepts a request exactly when the
\* request has every configured key and, for a key configured with a value
\* that is not empty, one of the request's values for the key is that
\* value; header keys are looked up in canonical form, query keys as given.
C16_SubmapMatch ==
    ret.op = "Route.Match" =>
        \A i \in MapMatchers :
            LET m == routes[ret.r].matchers[i]
                req == requests[ret.q]
            IN Accepted(i) <=>
                   \A k \in DOMAIN Configured(m) :
                       /\ LooksUp(m, k) \in DOMAIN LooksIn(m, req)
                       /\ Configured(m)[k] # "" =>
                              \E n \in 1..Len(LooksIn(m, req)[LooksUp(m, k)]) :
                                  LooksIn(m, req)[LooksUp(m, k)][n] = Configured(m)[k]

\* The matcher the last call appended to its route.
Appended(rec) == routes[rec.r].matchers[Len(routes[rec.r].matchers)]

\* C17: the matcher Methods appends holds the methods in upper case and the
\* matcher Schemes appends holds the schemes in lower case; a method or
\* scheme matcher accepts a request exactly when the request's method, or
\* scheme, is one of the strings it holds, compared as they are; and a route
\* with no sub-router, when it matches, returns itself.
C17_MethodAndSchemeMatchers ==
    [][/\ ret'.op = "Methods" /\ ret'.err = NoErr =>
              /\ Appended(ret)'.k = "methods"
              /\ Appended(ret)'.methods =
                     [i \in 1..Len(ret'.s) |-> ToUpper(ret'.s[i])]
       /\ ret'.op = "Schemes" /\ ret'.err = NoErr =>
              /\ Appended(ret)'.k = "schemes"
              /\ Appended(ret)'.schemes =
                     [i \in 1..Len(ret'.s) |-> ToLower(ret'.s[i])]
       /\ ret'.op = "Route.Match" =>
              /\ \A i \in 1..Len(routes[ret'.r].matchers) :
                     LET m == routes[ret'.r].matchers[i]
                         req == requests[ret'.q]
                     IN /\ Asked(i)' /\ m.k = "methods" =>
                               (Accepted(i)' <=> req.Method \in Range(m.methods))
                        /\ Asked(i)' /\ m.k = "schemes" =>
                               (Accepted(i)' <=> req.Scheme \in Range(m.schemes))
              /\ ret'.ok => ret'.route = ret'.r]_vars

\* A route with a methods matcher given in lower case and a schemes matcher
\* given in upper case has matched a request.
C17_Witness ==
    /\ ret.op = "Route.Match"
    /\ ret.ok
    /\ Len(routes[ret.r].matchers) = 2
    /\ \E i, j \in 1..2 :
          /\ routes[ret.r].matchers[i].k = "methods"
          /\ routes[ret.r].matchers[j].k = "schemes"

\* The last call was given arguments its builder refuses.
Misuse(rec) ==
    \/ rec.op = "Host" /\ rec.s = <<>>
    \/ rec.op \in {"Path", "PathPrefix"} /\ (rec.s = <<>> \/ rec.s[1] # "/")
    \/ rec.op \in {"Headers", "Queries"} /\ (Len(rec.s) % 2 = 1 \/ Len(rec.s) = 0)
    \/ rec.op \in {"Methods", "Schemes"} /\ Len(rec.s) = 0

\* The panic of each misuse.
MisuseErr(rec) ==
    CASE rec.op = "Host" -> "errEmptyHost"
      [] rec.op = "Path" -> "errEmptyPath"
      [] rec.op = "PathPrefix" -> "errEmptyPathPrefix"
      [] rec.op = "Headers" ->
            IF Len(rec.s) % 2 = 1 THEN "errOddHeaders" ELSE "errEmptyHeaders"
      [] rec.op = "Queries" ->
            IF Len(rec.s) % 2 = 1 THEN "errOddQueries" ELSE "errEmptyQueries"
      [] rec.op = "Methods" -> "errEmptyMethods"
      [] rec.op = "Schemes" -> "errEmptySchemes"

\* C18: Host with an empty string, Path and PathPrefix with an empty string
\* or a string that does not start with a slash, Headers and Queries with
\* an odd number of strings or none, Methods and Schemes with no strings
\* fail with their error, and the route keeps the templates and the
\* matchers it had.
C18_MisuseFailsAndChangesNothing ==
    [][Misuse(ret') => ret'.err = MisuseErr(ret') /\ routes' = routes]_vars

\* A call of Path with a template that does not start with a slash has
\* failed on a route that has a path template and a matcher.
C18_Witness ==
    /\ ret.op = "Path"
    /\ ret.s # <<>>
    /\ ret.err = "errEmptyPath"
    /\ routes[ret.r].pathTemplate # <<>>
    /\ routes[ret.r].matchers # <<>>

\* ------------------------------------------------------------------------
\* Properties of the order of a route's checks
\* ------------------------------------------------------------------------

\* The checks of route r, in the order the claim gives them: the host
\* template, the path template, the matchers as they were registered.
Checks(r) ==
    hostLog(r) \o pathLog(r)
        \o [i \in 1..Len(routes[r].matchers) |-> Ev("matcher", r, i, <<>>)]

\* The checks of its own that the route of the last Route.Match made, as
\* the match recorded them.
OwnChecks(rec) ==
    SelectSeq(rec.log, LAMBDA e : e.route = rec.r /\ e.ev # "set")

\* The host template, the path template of route r rejects request req.
HostFails(r, req) ==
    /\ routes[r].hostTemplate # <<>>
    /\ ~MatchString(routes[r].hostTemplate[1].Regexp, req.Host)
PathFails(r, req) ==
    /\ routes[r].pathTemplate # <<>>
    /\ ~MatchString(routes[r].pathTemplate[1].Regexp, req.Path)

\* Matcher i of route r rejects request req.
Rejects(r, i, req) == ~matcherMatch(routes[r].matchers[i], req).ok

\* C23: the checks Route.Match makes are an initial part of: host template,
\* path template, matchers in registration order; when the host template
\* fails nothing else is evaluated, neither the path template nor a matcher
\* nor a route of a sub-router; when the path template fails no matcher is
\* evaluated; and a matcher that rejects is the last check made.
C23_ChecksInOrderUntilFailure ==
    ret.op = "Route.Match" =>
        LET req == requests[ret.q]
            own == OwnChecks(ret)
        IN /\ Len(own) <= Len(Checks(ret.r))
           /\ own = SubSeq(Checks(ret.r), 1, Len(own))
           /\ HostFails(ret.r, req) => ret.log = hostLog(ret.r) /\ ~ret.ok
           /\ ~HostFails(ret.r, req) /\ PathFails(ret.r, req) =>
                  ret.log = hostLog(ret.r) \o pathLog(ret.r) /\ ~ret.ok
           /\ \A n \in 1..Len(own) :
                  own[n].ev = "matcher" /\ Rejects(ret.r, own[n].i, req) =>
                      n = Len(own) /\ ~ret.ok

\* A match of a route with a host template, a path template and two
\* matchers, the second a sub-router with a route, has stopped at the host.
C23_Witness ==
    /\ ret.op = "Route.Match"
    /\ HostFails(ret.r, requests[ret.q])
    /\ routes[ret.r].pathTemplate # <<>>
    /\ Len(routes[ret.r].matchers) = 2
    /\ routes[ret.r].matchers[2].k = "router"
    /\ routers[routes[ret.r].matchers[2].router].Routes # <<>>

\* C24: Route.Match succeeds exactly when the templates of the route match
\* the request and every matcher of the route accepts it, which does not
\* depend on the order of the matchers.
C24_MatchesIffAllAccept ==
    ret.op = "Route.Match" =>
        LET req == requests[ret.q]
        IN ret.ok <=>
               /\ ~HostFails(ret.r, req)
               /\ ~PathFails(ret.r, req)
               /\ \A i \in 1..Len(routes[ret.r].matchers) : ~Rejects(ret.r, i, req)

\* The requests of the clone inputs that route r matches.
Matches(r) == {req \in CloneRequests : RouteMatch(r, req).ok}

\* C30: the route Clone returns has the router, the handler, the templates
\* and the matchers of the original and is in no router's route list, the
\* original is as it was; and a matcher added to a route or to a clone of
\* it changes neither the matchers of the other routes nor the requests
\* they match.
C30_CloneIsIndependent ==
    [][/\ ret'.op = "Clone" =>
              /\ routes'[ret'.route].router = routes[ret'.r].router
              /\ routes'[ret'.route].handler = routes[ret'.r].handler
              /\ routes'[ret'.route].hostTemplate = routes[ret'.r].hostTemplate
              /\ routes'[ret'.route].pathTemplate = routes[ret'.r].pathTemplate
              /\ routes'[ret'.route].matchers = routes[ret'.r].matchers
              /\ routes'[ret'.r] = routes[ret'.r]
              /\ routers' = routers
              /\ \A rt \in RouterIds' : ret'.route \notin Range(routers'[rt].Routes)
       /\ ret'.op = "Matcher" =>
              \A y \in Family \ {ret'.r} :
                  /\ routes'[y].matchers = routes[y].matchers
                  /\ Matches(y)' = Matches(y)]_vars

\* A matcher that rejects every request has been added to a clone that was
\* made of a route with a matcher, and the route still matches a request.
C30_Witness ==
    /\ ret.op = "Matcher"
    /\ ret.r # 1
    /\ Len(routes[ret.r].matchers) = 2
    /\ routes[1].matchers = <<routes[ret.r].matchers[1]>>
    /\ Matches(1) # {}
    /\ Matches(ret.r) = {}

\* ------------------------------------------------------------------------
\* Properties of what a match writes
\* ------------------------------------------------------------------------

\* The step is the return of a Router.Match or Route.Match call.
IsMatchCall == ret'.op \in {"Router.Match", "Route.Match"}

\* C25: a Router.Match or Route.Match call leaves every router (its route
\* list, its name table), every route (templates, matchers, handler), the
\* package variables and the requests as they were, and in the store it
\* leaves the entry of every request other than the one it matched as it
\* was.
C25_MatchWritesOnlyItsVars ==
    [][IsMatchCall =>
          /\ routers' = routers
          /\ routes' = routes
          /\ pkg' = pkg
          /\ requests' = requests
          /\ DOMAIN ctx' \ {ret'.q} = DOMAIN ctx \ {ret'.q}
          /\ \A x \in DOMAIN ctx \ {ret'.q} : ctx'[x] = ctx[x]]_vars

\* A match of a router with two routes, the first with a name and a handler,
\* stored variables for one request while the store held other variables
\* for another request.
C25_Witness ==
    /\ ret.op = "Router.Match"
    /\ ret.ok
    /\ routers[1].Routes = <<1, 2>>
    /\ routes[1].handler # <<>>
    /\ routers[1].NamedRoutes \notin {<<>>, << <<>> >>}
    /\ \E x \in DOMAIN ctx \ {ret.q} :
          /\ ctx[x] # <<>>
          /\ ctx[ret.q] # <<>>
          /\ ctx[x] # ctx[ret.q]

\* The entry the store holds for request q after a match of router rt alone,
\* begun when the store held the entry before.
Alone(rt, q, before) ==
    entry(applyLog(IF before = <<>> THEN <<>> ELSE [x \in {q} |-> before[1]],
                   q, RouterMatch(rt, requests[q]).log, 1),
          q)

\* C26: when the matches of several requests interleave, each call returns
\* the route a match of its request alone returns and leaves in the store
\* the variables that match alone leaves, and a Set of one call leaves the
\* entries of the other requests as they were.
C26_ConcurrentMatchesAsAlone ==
    [][/\ ret'.op = "return" =>
              /\ ret'.route = RouterMatch(ret'.rt, requests[ret'.q]).route
              /\ ret'.ok = RouterMatch(ret'.rt, requests[ret'.q]).ok
              /\ entry(ctx', ret'.q) = Alone(ret'.rt, ret'.q, calls[ret'.q].before)
       /\ ret'.op = "set" =>
              \A x \in DOMAIN requests \ {ret'.q} : entry(ctx', x) = entry(ctx, x)]_vars

\* A call returns a route after two Set calls while the call of another
\* request is between its two Set calls, with other variables stored.
C26_Witness ==
    /\ ret.op = "return"
    /\ ret.ok
    /\ Len(sets(ret.log)) = 2
    /\ \E x \in DOMAIN calls :
          /\ calls[x].done = 1
          /\ Len(sets(calls[x].res.log)) = 2
          /\ ctx[x] # ctx[ret.q]

\* ------------------------------------------------------------------------
\* Properties of serving
\* ------------------------------------------------------------------------

\* The last call was ServeHTTP on a request with a canonical path.
ServedCanonical ==
    /\ ret.op = "ServeHTTP"
    /\ cleanPath(requests[ret.q].Path) = requests[ret.q].Path

\* C27: after ServeHTTP returned for a request with a canonical path, a
\* handler or the not-found handler was dispatched and the store holds
\* nothing for the request; for a request whose path is not canonical
\* ServeHTTP answers 301 with the cleaned path as Location, no route was
\* matched, no variables were stored and no handler was dispatched.
C27_ServeReleasesVars ==
    ret.op = "ServeHTTP" =>
        /\ ServedCanonical /\ ret.err = NoErr =>
               /\ ret.q \notin DOMAIN ctx
               /\ ret.status = 0
               /\ Len(ret.served) = 1
        /\ ~ServedCanonical =>
               /\ ret.err = NoErr
               /\ ret.status = StatusMovedPermanently
               /\ ret.location = <<cleanPath(requests[ret.q].Path)>>
               /\ ret.log = <<>>
               /\ ret.route = Nil
               /\ ret.served = <<>>

\* ServeHTTP returned after the handler of a route was dispatched, for a
\* request that the route matched with a variable.
C27_Witness ==
    /\ ServedCanonical
    /\ ret.ok
    /\ ret.served = <<"h1">>
    /\ \E i \in 1..Len(ret.log) : ret.log[i].ev = "set" /\ ret.log[i].vars # <<>>
    /\ ret.q \notin DOMAIN ctx

\* C29: when the route that Router.Match returned has no handler, ServeHTTP
\* does not panic and dispatches the not-found handler.
C29_NoHandlerIsNotFound ==
    /\ ServedCanonical
    /\ ret.ok
    /\ routes[ret.route].handler = <<>>
    => /\ ret.err = NoErr
       /\ ret.served = <<"NotFoundHandler">>

\* ------------------------------------------------------------------------
\* Templates read as text
\* ------------------------------------------------------------------------
\* What a template says, stated from its text alone: the nesting depth of
\* the braces at each position, and the placeholders, which are the brace
\* groups that open at depth 0.

Count(t, c, i) == Cardinality({j \in 1..i : t[j] = c})

\* The depth of the braces after the first i characters of t.
Depth(t, i) == Count(t, "{", i) - Count(t, "}", i)

BracesBalanced(t) ==
    /\ Depth(t, Len(t)) = 0
    /\ \A i \in 1..Len(t) : Depth(t, i) >= 0

\* Where the placeholders of a template with balanced braces open, and
\* where the one that opens at a closes.
Opens(t) == {a \in 1..Len(t) : t[a] = "{" /\ Depth(t, a - 1) = 0}
CloseOf(t, a) ==
    CHOOSE b \in (a + 1)..Len(t) :
        Depth(t, b) = 0 /\ \A c \in a..(b - 1) : Depth(t, c) > 0

\* The n-th smallest element of a set of numbers.
NthOf(S, n) == CHOOSE x \in S : Cardinality({y \in S : y < x}) = n - 1

\* The placeholder of t that opens at a: its bounds, its name (up to the
\* first colon) and its pattern (after it; none when there is no colon).
PlaceholderAt(t, a) ==
    LET b == CloseOf(t, a)
        colons == {c \in (a + 1)..(b - 1) : t[c] = ":"}
        c == IF colons = {} THEN b ELSE NthOf(colons, 1)
    IN [from |-> a, to |-> b,
        name |-> SubSeq(t, a + 1, c - 1),
        hasPatt |-> colons # {},
        patt |-> SubSeq(t, c + 1, b - 1)]

\* The placeholders of a template with balanced braces, from the left.
Placeholders(t) ==
    [n \in 1..Cardinality(Opens(t)) |-> PlaceholderAt(t, NthOf(Opens(t), n))]

\* The template with the n-th placeholder and those after it replaced by
\* the values of their names, from the text after placeholder n - 1 on.
RECURSIVE FilledFrom(_, _, _, _)
FilledFrom(t, ph, n, values) ==
    LET start == IF n = 1 THEN 1 ELSE ph[n - 1].to + 1
    IN IF n > Len(ph) THEN SubSeq(t, start, Len(t))
       ELSE SubSeq(t, start, ph[n].from - 1) \o values[ph[n].name]
                \o FilledFrom(t, ph, n + 1, values)

Filled(t, values) == FilledFrom(t, Placeholders(t), 1, values)

\* ------------------------------------------------------------------------
\* Properties of URL building
\* ------------------------------------------------------------------------

\* The parsed forms of the host and path templates of the URL inputs.
ParsedHosts ==
    [t \in URLHostTemplates |-> parseTemplate(t, <<"[^.]+">>, FALSE, <<>>).tpl]
ParsedPaths ==
    [t \in URLPathTemplates |-> parseTemplate(t, <<"[^/]+">>, FALSE, <<>>).tpl]

\* The template text that parsed template tpl was made from.
SameTemplate(a, b) ==
    a.Reverse = b.Reverse /\ a.VarsN = b.VarsN /\ a.VarsR = b.VarsR
SrcOfHost(tpl) == CHOOSE t \in URLHostTemplates : SameTemplate(ParsedHosts[t], tpl)
SrcOfPath(tpl) == CHOOSE t \in URLPathTemplates : SameTemplate(ParsedPaths[t], tpl)

\* The last call built a URL.
IsURL(rec) == rec.op \in {"URL", "URLHost", "URLPath"}

\* The templates the last URL call built from: host, path (nil or one each).
HostOf(rec) ==
    IF rec.op = "URLPath" THEN <<>> ELSE routes[rec.r].hostTemplate
PathOf(rec) ==
    IF rec.op = "URLHost" THEN <<>> ELSE routes[rec.r].pathTemplate

\* The variables of tpl (nil or one template) that values does not bind.
Missing(tpl, values) ==
    IF tpl = <<>> THEN {}
    ELSE {k \in 1..Len(tpl[1].VarsN) : tpl[1].VarsN[k] \notin DOMAIN values}

\* The variables of tpl whose value the variable's own regexp rejects.
Rejected(tpl, values) ==
    IF tpl = <<>> THEN {}
    ELSE {k \in 1..Len(tpl[1].VarsN) :
             /\ tpl[1].VarsN[k] \in DOMAIN values
             /\ ~MatchString(tpl[1].VarsR[k], values[tpl[1].VarsN[k]])}

\* values binds every variable of tpl to text that the variable's own
\* regexp matches as a whole.
Satisfies(tpl, values) ==
    /\ Missing(tpl, values) = {}
    /\ tpl # <<>> =>
          \A k \in 1..Len(tpl[1].VarsN) :
              LET m == FindStringSubmatch(tpl[1].VarsR[k], values[tpl[1].VarsN[k]])
              IN m # <<>> /\ m[1] = values[tpl[1].VarsN[k]]

\* The regexp of tpl matches text and its groups are the values of the
\* variables, in order.
Extracts(tpl, text, values) ==
    tpl # <<>> =>
        LET m == FindStringSubmatch(tpl[1].Regexp, text)
        IN /\ m # <<>>
           /\ \A k \in 1..Len(tpl[1].VarsN) : m[k + 1] = values[tpl[1].VarsN[k]]

\* C11: when every variable of the templates a URL is built from is bound
\* to a value its own pattern accepts, the URL is built, each part is
\* matched by the regexp of its template, and the groups of that match,
\* zipped with the variable names, are the bindings again.
C11_RoundTrip ==
    IsURL(ret) /\ (HostOf(ret) # <<>> \/ PathOf(ret) # <<>>)
        /\ Satisfies(HostOf(ret), ret.s) /\ Satisfies(PathOf(ret), ret.s) =>
        /\ ret.err = NoErr
        /\ Extracts(HostOf(ret), ret.url[1].Host, ret.s)
        /\ Extracts(PathOf(ret), ret.url[1].Path, ret.s)

\* C12: Route.URL returns a URL only if every variable of the route's
\* templates is supplied with a value that the variable's anchored pattern
\* matches, and fails with the doesn't-match error when all are supplied
\* and one of them is not matched.
C12_URLOnlyForConformingValues ==
    ret.op = "URL" =>
        LET missing == Missing(HostOf(ret), ret.s) \cup Missing(PathOf(ret), ret.s)
            rejected == Rejected(HostOf(ret), ret.s) \cup Rejected(PathOf(ret), ret.s)
        IN /\ ret.err = NoErr => missing = {} /\ rejected = {}
           /\ missing = {} /\ rejected # {} => ret.err = "errBadRouteVar"

\* The template whose variables decide the outcome of the last URL call:
\* the host template unless it is nil or builds.
Deciding(rec) ==
    IF HostOf(rec) # <<>>
           /\ (PathOf(rec) = <<>> \/ Missing(HostOf(rec), rec.s) # {}
                  \/ Rejected(HostOf(rec), rec.s) # {})
    THEN HostOf(rec) ELSE PathOf(rec)

\* C13: when the bindings lack a variable of the template, building fails
\* with the missing-variable error, which names the first missing variable
\* in template order, and returns nothing; when every variable is bound to
\* a value its pattern accepts, each part of the URL is the template with
\* its placeholders replaced, in order, by the values.
C13_MissingVariableNamed ==
    IsURL(ret) /\ (HostOf(ret) # <<>> \/ PathOf(ret) # <<>>) =>
        /\ Missing(Deciding(ret), ret.s) # {} =>
              /\ ret.err = "errMissingRouteVar"
              /\ ret.name =
                     Deciding(ret)[1].VarsN[NthOf(Missing(Deciding(ret), ret.s), 1)]
              /\ ret.url = <<>>
        /\ Satisfies(HostOf(ret), ret.s) /\ Satisfies(PathOf(ret), ret.s) =>
              /\ ret.err = NoErr
              /\ HostOf(ret) # <<>> =>
                     ret.url[1].Host = Filled(SrcOfHost(HostOf(ret)[1]), ret.s)
              /\ PathOf(ret) # <<>> =>
                     ret.url[1].Path = Filled(SrcOfPath(PathOf(ret)[1]), ret.s)

\* Texts to try a regexp on: the literal templates and texts close to them.
Texts ==
    { <<>>, <<"/">>, <<"/", "p">>, <<"p">>, <<"/", "p", "/">>, <<"/", "p", "p">>,
      <<"q", "/", "p">>, <<"/", "%">>, <<"a", ".", "d">>, <<"a", "a", "d">>,
      <<"a", ".", "d", ".", "d">>, <<"a", "d">> }

\* tpl (nil or one template) has no variables.
NoVars(tpl) == tpl # <<>> /\ tpl[1].VarsN = <<>>

\* C14: the regexp Host or Path compiles from a template without braces
\* matches the template's text and no other text, and a URL built with no
\* bindings from templates without variables is that text.
C14_LiteralTemplate ==
    /\ ret.op \in {"Host", "Path"} /\ ret.err = NoErr /\ Opens(ret.s) = {} =>
          LET tpl == IF ret.op = "Host" THEN routes[ret.r].hostTemplate[1]
                     ELSE routes[ret.r].pathTemplate[1]
          IN \A x \in Texts \cup {ret.s} :
                 MatchString(tpl.Regexp, x) <=> x = ret.s
    /\ IsURL(ret) /\ ret.s = <<>> =>
          /\ NoVars(HostOf(ret)) /\ ret.err = NoErr =>
                 ret.url[1].Host = SrcOfHost(HostOf(ret)[1])
          /\ NoVars(PathOf(ret)) /\ ret.err = NoErr =>
                 ret.url[1].Path = SrcOfPath(PathOf(ret)[1])
          /\ (NoVars(HostOf(ret)) \/ HostOf(ret) = <<>>)
                 /\ (NoVars(PathOf(ret)) \/ PathOf(ret) = <<>>)
                 /\ (HostOf(ret) # <<>> \/ PathOf(ret) # <<>>) => ret.err = NoErr

\* The route that holds the router of route r has a host template.
UnderHost(r) ==
    \E x \in RouteIds :
        routes[r].router \in SubRouters(x) /\ routes[x].hostTemplate # <<>>

\* C22: a URL that Route.URL returns has the scheme http and a host when
\* the route itself has a host template, and neither when it has none,
\* whatever the route that holds its router has; it has a path exactly when
\* the route has a path template; URLHost fails on a route without a host
\* template and URLPath on a route without a path template, and no URL call
\* fails that way otherwise.
C22_URLFromOwnTemplates ==
    /\ ret.op = "URL" /\ ret.err = NoErr =>
          /\ IF routes[ret.r].hostTemplate # <<>>
             THEN ret.url[1].Scheme = "http" /\ ret.url[1].Host # <<>>
             ELSE ret.url[1].Scheme = "" /\ ret.url[1].Host = <<>>
          /\ ret.url[1].Path # <<>> <=> routes[ret.r].pathTemplate # <<>>
    /\ IsURL(ret) =>
          /\ ret.err = "errMissingHost" <=>
                 ret.op = "URLHost" /\ routes[ret.r].hostTemplate = <<>>
          /\ ret.err = "errMissingPath" <=>
                 ret.op = "URLPath" /\ routes[ret.r].pathTemplate = <<>>

\* A URL has been built from a route that has a path template and no host
\* template, in a sub-router under a route with a host template.
C22_Witness ==
    /\ ret.op = "URL"
    /\ ret.err = NoErr
    /\ routes[ret.r].hostTemplate = <<>>
    /\ routes[ret.r].pathTemplate # <<>>
    /\ UnderHost(ret.r)

\* ------------------------------------------------------------------------
\* Properties of template parsing
\* ------------------------------------------------------------------------

\* The parentheses of pattern text balance.
ParensBalanced(patt) ==
    /\ Count(patt, "(", Len(patt)) = Count(patt, ")", Len(patt))
    /\ \A i \in 1..Len(patt) : Count(patt, "(", i) >= Count(patt, ")", i)

\* The pattern of placeholder ph under default pattern dp.
PatternOf(ph, dp) == IF ph.hasPatt THEN ph.patt ELSE dp

\* Template t, parsed for a route that has the names, has unbalanced
\* braces, or a placeholder with an empty name or an empty pattern, or a
\* name that the route or an earlier placeholder has.
Malformed(t, names) ==
    \/ ~BracesBalanced(t)
    \/ \E n \in 1..Len(Placeholders(t)) :
          LET ph == Placeholders(t)[n]
          IN \/ ph.name = <<>>
             \/ ph.hasPatt /\ ph.patt = <<>>
             \/ \E i \in 1..Len(names) : names[i] = ph.name
             \/ \E i \in 1..(n - 1) : Placeholders(t)[i].name = ph.name

\* Template t with balanced braces has a placeholder whose pattern is no
\* regular expression.
BadPattern(t, dp) ==
    \E n \in 1..Len(Placeholders(t)) : ~ParensBalanced(PatternOf(Placeholders(t)[n], dp))

\* The variables of the parsed template are the placeholders of t, from
\* the left: the names are theirs, and the validating regexps are those of
\* their patterns, nested braces included.
VariablesArePlaceholders(tpl, t, dp) ==
    /\ Len(tpl.VarsN) = Len(Placeholders(t))
    /\ Len(tpl.VarsR) = Len(Placeholders(t))
    /\ \A n \in 1..Len(Placeholders(t)) :
          /\ tpl.VarsN[n] = Placeholders(t)[n].name
          /\ tpl.VarsR[n] =
                 MustCompile(<<Src("^")>>
                                 \o SrcSeq(PatternOf(Placeholders(t)[n], dp))
                                 \o <<Src("$")>>).re

\* The claim as made: parsing fails exactly for malformed templates.
C19_FailsIffMalformed ==
    ret.op = "parseTemplate" =>
        /\ ret.err # NoErr <=> Malformed(ret.s.template, ret.s.names)
        /\ ret.err = NoErr =>
               VariablesArePlaceholders(ret.tpl[1], ret.s.template,
                                        ret.s.defaultPattern)

\* C19: parseTemplate fails exactly when the braces of the template are
\* unbalanced, or a top-level {...} segment has an empty name, an empty
\* pattern or a name that is taken, or a segment's pattern is no regular
\* expression; otherwise each top-level brace group, from the left, is one
\* variable, and the braces nested in a group are part of its pattern.
C19_FailsIffMalformedOrBadPattern ==
    ret.op = "parseTemplate" =>
        /\ ret.err # NoErr <=>
               \/ Malformed(ret.s.template, ret.s.names)
               \/ BadPattern(ret.s.template, ret.s.defaultPattern)
        /\ ret.err = NoErr =>
               VariablesArePlaceholders(ret.tpl[1], ret.s.template,
                                        ret.s.defaultPattern)

\* A template with a brace group nested in the pattern of its one
\* placeholder has been parsed.
C19_Witness ==
    /\ ret.op = "parseTemplate"
    /\ ret.err = NoErr
    /\ ret.tpl[1].VarsN = << <<"k">> >>
    /\ \E i \in 1..Len(Placeholders(ret.s.template)[1].patt) :
          Placeholders(ret.s.template)[1].patt[i] = "{"

\* The number of "%s" in a reverse format.
Verbs(reverse) ==
    Cardinality({i \in 1..(Len(reverse) - 1) :
                    reverse[i] = "%" /\ reverse[i + 1] = "s"})

\* C20: a template that parses has as many variable names, and as many
\* validating regexps, as the template has top-level placeholders, the i-th
\* of each being that of the i-th placeholder from the left, and its
\* reverse format is the template with each placeholder replaced by one
\* "%s", and holds no other.
C20_ParallelVariableLists ==
    ret.op = "parseTemplate" /\ ret.err = NoErr =>
        LET t == ret.s.template
            tpl == ret.tpl[1]
        IN /\ VariablesArePlaceholders(tpl, t, ret.s.defaultPattern)
           /\ Len(tpl.VarsN) = Cardinality(Opens(t))
           /\ tpl.Reverse =
                  Filled(t, [n \in Range(tpl.VarsN) |-> <<"%", "s">>])
           /\ Verbs(tpl.Reverse) = Cardinality(Opens(t))

====
